---- MODULE Spec2Model ----
(***************************************************************************)
(* Model of the OpenQM access layer of lcsmd/email-org:                    *)
(*   src/app/database/qmclient.py        transports and the record codec   *)
(*   src/app/database/openqm_manager.py  connection manager and repository *)
(*                                                                         *)
(* Text is modelled as a sequence of code points, so that splitting,       *)
(* joining, prefix tests and string comparison are computed as Python      *)
(* computes them.  A Python value is a record [k, s, l]: k = "str" with    *)
(* the text in s, k = "list" with the elements in l, or k = "none".  A     *)
(* Python dict is the sequence of its [key, val] entries in insertion      *)
(* order.                                                                  *)
(***************************************************************************)
EXTENDS Integers, Sequences, FiniteSets, TLC

VARIABLES
    rec,        \* codec: the record handed to format_record
    wire,       \* codec: the wire string handed to parse_record
    rt_rec,     \* codec: parse_record(format_record(rec))
    rt_wire,    \* codec: format_record(parse_record(wire))
    mgr,        \* the manager: use_websvc, and the connection handle and its flag
    store,      \* the server: per file and id, the stored wire string
    last,       \* the last repository operation and what it returned
    linked,     \* the add_email calls that wrote their thread: [thread, email, date]
    cpc,        \* command runs: "idle", "enter" (in the method) or "done"
    ccall,      \* command runs: the command called
    cres,       \* command runs: its result, connect attempts and failure flags
    store2,     \* parity runs: the server behind the web service manager
    last2,      \* parity runs: the web service manager's last operation
    filters,    \* query builder: the filter mapping, in insertion order
    qtext,      \* query builder: the queries search_emails and search_threads build
    qmc,        \* a QMConnection: socket (not None) and connected
    qmc_ok,     \* an OK handshake happened on qmc and no disconnect() since
    sel,        \* the last connect or select on qmc or on a QMWebService
    procs,      \* concurrent add_email calls: position and local thread copy
    cbase,      \* concurrent runs: the store when the two calls began
    rx          \* receive runs: the socket's byte stream and the read in progress

codecVars == <<rec, wire, rt_rec, rt_wire>>
cmdVars == <<cpc, ccall, cres>>
parityVars == <<store2, last2>>
queryVars == <<filters, qtext>>
connVars == <<qmc, qmc_ok, sel>>
concVars == <<procs, cbase>>
recvVars == <<rx>>
vars == <<rec, wire, rt_rec, rt_wire, mgr, store, last, linked, cpc, ccall, cres,
          store2, last2, filters, qtext, qmc, qmc_ok, sel, procs, cbase, rx>>

-----------------------------------------------------------------------------
(* Delimiters, qmclient.py:26-28 *)
FIELD_MARK == 254
VALUE_MARK == 253
SUBVALUE_MARK == 252

(* Bounds of the model *)
MaxFields == 11       \* longest record / wire string of the codec runs
MaxRichFields == 1    \* leading fields that range over every field shape

-----------------------------------------------------------------------------
(* Python text *)

\* str.split(sep): one more part than there are separators, '' gives ['']
Split(s, sep) ==
    LET RECURSIVE F(_, _, _)
        F(i, cur, acc) ==
            IF i > Len(s) THEN Append(acc, cur)
            ELSE IF s[i] = sep THEN F(i + 1, <<>>, Append(acc, cur))
            ELSE F(i + 1, Append(cur, s[i]), acc)
    IN F(1, <<>>, <<>>)

\* sep.join(parts)
Join(parts, sep) ==
    LET RECURSIVE F(_, _)
        F(i, acc) ==
            IF i > Len(parts) THEN acc
            ELSE F(i + 1, IF i = 1 THEN parts[1] ELSE acc \o <<sep>> \o parts[i])
    IN F(1, <<>>)

\* c in s, for a one-character c
Contains(s, c) == \E i \in 1..Len(s) : s[i] = c

\* s.startswith(p)
StartsWith(s, p) == Len(s) >= Len(p) /\ SubSeq(s, 1, Len(p)) = p

\* a < b on str: lexicographic by code point
StrLess(a, b) ==
    LET RECURSIVE F(_)
        F(i) ==
            IF i > Len(b) THEN FALSE
            ELSE IF i > Len(a) THEN TRUE
            ELSE IF a[i] < b[i] THEN TRUE
            ELSE IF a[i] > b[i] THEN FALSE
            ELSE F(i + 1)
    IN F(1)

\* str(i) for a natural number i
RECURSIVE Digits(_)
Digits(i) == IF i < 10 THEN <<48 + i>> ELSE Digits(i \div 10) \o <<48 + (i % 10)>>

-----------------------------------------------------------------------------
(* Python values and dicts *)

PStr(s) == [k |-> "str", s |-> s, l |-> <<>>]
PList(l) == [k |-> "list", s |-> <<>>, l |-> l]
PNone == [k |-> "none", s |-> <<>>, l |-> <<>>]

S_None == <<78, 111, 110, 101>>                \* 'None'
S_field == <<102, 105, 101, 108, 100>>         \* 'field'

\* str(v) of a str or of None
PyStr(v) == IF v.k = "none" THEN S_None ELSE v.s

\* f"field{i}"
FieldKey(i) == S_field \o Digits(i)

EmptyDict == <<>>

HasKey(d, key) == \E i \in 1..Len(d) : d[i].key = key

\* d.get(key, default)
Get(d, key, default) ==
    IF HasKey(d, key)
    THEN d[CHOOSE i \in 1..Len(d) : d[i].key = key].val
    ELSE default

\* d[key] = val: an existing key keeps its position, a new one goes last
Set(d, key, val) ==
    IF HasKey(d, key)
    THEN [i \in 1..Len(d) |-> IF d[i].key = key THEN [key |-> key, val |-> val] ELSE d[i]]
    ELSE Append(d, [key |-> key, val |-> val])

-----------------------------------------------------------------------------
(* Record codec of qmclient.py *)

\* one value of a multi-valued field, qmclient.py:553-557
ParseValue(value) ==
    IF Contains(value, SUBVALUE_MARK)
    THEN PList([j \in 1..Len(Split(value, SUBVALUE_MARK)) |->
                    PStr(Split(value, SUBVALUE_MARK)[j])])
    ELSE PStr(value)

\* one field, qmclient.py:544-562
ParseField(field) ==
    IF Contains(field, VALUE_MARK)
    THEN LET values == Split(field, VALUE_MARK)
             has_subvalues == \E j \in 1..Len(values) : Contains(values[j], SUBVALUE_MARK)
         IN IF has_subvalues
            THEN PList([j \in 1..Len(values) |-> ParseValue(values[j])])
            ELSE PList([j \in 1..Len(values) |-> PStr(values[j])])
    ELSE PStr(field)

\* parse_record: record_data.split raises on anything but a str, and the
\* handler returns {}; keys are field0, field1, ... in wire order
parse_record(record_data) ==
    IF record_data.k # "str" THEN EmptyDict
    ELSE LET fields == Split(record_data.s, FIELD_MARK)
         IN [i \in 1..Len(fields) |->
                [key |-> FieldKey(i - 1), val |-> ParseField(fields[i])]]

\* sorted(data.items()): ascending by key, keys compared as str
SortedItems(data) ==
    LET RECURSIVE Ins(_, _)
        Ins(e, sorted) ==
            IF sorted = <<>> THEN <<e>>
            ELSE IF StrLess(e.key, Head(sorted).key) THEN <<e>> \o sorted
            ELSE <<Head(sorted)>> \o Ins(e, Tail(sorted))
        RECURSIVE F(_, _)
        F(i, acc) == IF i > Len(data) THEN acc ELSE F(i + 1, Ins(data[i], acc))
    IN F(1, <<>>)

\* one item of a list value, qmclient.py:587-592
FormatItem(item) ==
    IF item.k = "list"
    THEN Join([j \in 1..Len(item.l) |-> PyStr(item.l[j])], SUBVALUE_MARK)
    ELSE PyStr(item)

\* one field value, qmclient.py:584-595
FormatValue(value) ==
    IF value.k = "list"
    THEN Join([j \in 1..Len(value.l) |-> FormatItem(value.l[j])], VALUE_MARK)
    ELSE PyStr(value)

\* format_record: the fields in sorted key order
format_record(data) ==
    LET items == SortedItems(data)
    IN Join([i \in 1..Len(items) |-> FormatValue(items[i].val)], FIELD_MARK)

-----------------------------------------------------------------------------
(* More Python values: booleans and dicts, and truthiness *)

PTrue == [k |-> "true", s |-> <<>>, l |-> <<>>]
PFalse == [k |-> "false", s |-> <<>>, l |-> <<>>]
PBool(b) == IF b THEN PTrue ELSE PFalse
PDict(d) == [k |-> "dict", s |-> <<>>, l |-> d]

\* bool(v)
Truthy(v) ==
    CASE v.k = "str" -> v.s # <<>>
      [] v.k \in {"list", "dict"} -> v.l # <<>>
      [] v.k = "true" -> TRUE
      [] OTHER -> FALSE

\* s.rstrip('\0')
RStripNul(s) ==
    LET RECURSIVE F(_)
        F(n) == IF n > 0 /\ s[n] = 0 THEN F(n - 1) ELSE SubSeq(s, 1, n)
    IN F(Len(s))

IsSpace(c) == c \in {9, 10, 11, 12, 13, 32}

\* s.strip()
Strip(s) ==
    LET RECURSIVE L(_)
        L(i) == IF i <= Len(s) /\ IsSpace(s[i]) THEN L(i + 1) ELSE i
        RECURSIVE R(_)
        R(n) == IF n >= L(1) /\ IsSpace(s[n]) THEN R(n - 1) ELSE n
    IN SubSeq(s, L(1), R(Len(s)))

\* a in b on str: a occurs in b as a substring
IsSubstring(a, b) ==
    \E i \in 1..(Len(b) - Len(a) + 1) : SubSeq(b, i, i + Len(a) - 1) = a

S_id == <<105, 100>>                            \* 'id'
S_type == <<116, 121, 112, 101>>                \* 'type'
S_emails == <<101, 109, 97, 105, 108, 115>>     \* 'emails'
S_thread_id == <<116, 104, 114, 101, 97, 100, 95, 105, 100>>                  \* 'thread_id'
S_date_sent == <<100, 97, 116, 101, 95, 115, 101, 110, 116>>                  \* 'date_sent'
S_date_started == <<100, 97, 116, 101, 95, 115, 116, 97, 114, 116, 101, 100>> \* 'date_started'
S_last_date == <<108, 97, 115, 116, 95, 100, 97, 116, 101>>                   \* 'last_date'
S_attachment_ids ==
    <<97, 116, 116, 97, 99, 104, 109, 101, 110, 116, 95, 105, 100, 115>>      \* 'attachment_ids'
S_ERROR == <<69, 82, 82, 79, 82>>               \* 'ERROR'
S_OK == <<79, 75>>                              \* 'OK'
S_True == <<84, 114, 117, 101>>                 \* 'True'
S_False == <<70, 97, 108, 115, 101>>            \* 'False'
NEWLINE == 10

\* str(v) of a value that is not a container
PyStrAny(v) ==
    CASE v.k = "true" -> S_True
      [] v.k = "false" -> S_False
      [] OTHER -> PyStr(v)

-----------------------------------------------------------------------------
(* Record codec of OpenQMManager *)

\* _parse_record as it would be if it named every field field<n>
_parse_record_unnamed(record_data) == parse_record(record_data)

\* _parse_record: field 0 is 'id', field 1 is 'type', field i is 'field<i>';
\* a field holding a value mark becomes a list of str; anything but a str
\* raises inside the try and gives {}
_parse_record(record_data) ==
    IF record_data.k # "str" THEN EmptyDict
    ELSE LET fields == Split(record_data.s, FIELD_MARK)
             Val(field) ==
                 IF Contains(field, VALUE_MARK)
                 THEN PList([j \in 1..Len(Split(field, VALUE_MARK)) |->
                                 PStr(Split(field, VALUE_MARK)[j])])
                 ELSE PStr(field)
         IN [i \in 1..Len(fields) |->
                [key |-> IF i = 1 THEN S_id ELSE IF i = 2 THEN S_type ELSE FieldKey(i - 1),
                 val |-> IF i <= 2 THEN PStr(fields[i]) ELSE Val(fields[i])]]

\* whether _format_record raises inside its try: str.join over a non-str
FormatRaises(data) ==
    \/ Get(data, S_id, PStr(<<>>)).k # "str"
    \/ Get(data, S_type, PStr(<<>>)).k # "str"
    \/ \E i \in 1..Len(data) :
          /\ data[i].key \notin {S_id, S_type}
          /\ data[i].val.k = "list"
          /\ \E j \in 1..Len(data[i].val.l) : data[i].val.l[j].k # "str"

\* _format_record: id, type, then every other key in insertion order; a
\* list is joined by value marks, anything else goes through str(); an
\* error gives ''
_format_record(data) ==
    IF FormatRaises(data) THEN <<>>
    ELSE LET others == SelectSeq(data, LAMBDA e : e.key \notin {S_id, S_type})
             Fmt(value) ==
                 IF value.k = "list"
                 THEN Join([j \in 1..Len(value.l) |-> value.l[j].s], VALUE_MARK)
                 ELSE PyStrAny(value)
             fields == <<Get(data, S_id, PStr(<<>>)).s, Get(data, S_type, PStr(<<>>)).s>>
                       \o [i \in 1..Len(others) |-> Fmt(others[i].val)]
         IN Join(fields, FIELD_MARK)

-----------------------------------------------------------------------------
(* The remote server: per file, the wire string stored under each id.     *)
(* A round trip carries a fault: "ok"; "send_error" (the request never     *)
(* leaves); "recv_error" (the server ran the command, the answer is lost); *)
(* "refuse" (the server answers with an error and does nothing); and for   *)
(* the web service "non200" (error status, nothing done) and "bad_body"    *)
(* (the command ran, the body is not JSON).                                *)

Files == {"EMAILS", "THREADS", "USERS", "ATTACHMENTS"}

S_e1 == <<101, 49>>                             \* 'e1'
S_e2 == <<101, 50>>                             \* 'e2'
S_t1 == <<116, 49>>                             \* 't1'
S_u1 == <<117, 49>>                             \* 'u1', a generated uuid
S_ERROR1 == <<69, 82, 82, 79, 82, 49>>          \* 'ERROR1'
S_OK1 == <<79, 75, 49>>                         \* 'OK1'

EmailIds == {S_e1, S_e2}
ThreadIds == {S_t1}
OddIds == {S_ERROR1, S_OK1}
AllIds == EmailIds \cup ThreadIds \cup OddIds \cup {S_u1}

Absent == [present |-> FALSE, data |-> <<>>]
EmptyStore == [f \in Files |-> [id \in AllIds |-> Absent]]

ServerHas(st, file, id) == id \in AllIds /\ st[file][id].present
ServerPut(st, file, id, data) ==
    IF id \in AllIds
    THEN [st EXCEPT ![file][id] = [present |-> TRUE, data |-> data]]
    ELSE st
ServerDrop(st, file, id) ==
    IF id \in AllIds THEN [st EXCEPT ![file][id] = Absent] ELSE st

SockFaults == {"ok", "send_error", "recv_error", "refuse"}
WebFaults == {"ok", "send_error", "recv_error", "refuse", "non200", "bad_body"}
ConnFaults == {"ok", "refused", "denied", "recv_error"}

\* the server ran the command
Ran(fault) == fault \in {"ok", "recv_error", "bad_body"}

\* the server's answers on the socket, each ended by a null byte
SockReadReply(st, file, id, fault) ==
    (IF fault = "ok" /\ ServerHas(st, file, id) THEN st[file][id].data ELSE S_ERROR) \o <<0>>
SockAckReply(fault) == (IF fault = "ok" THEN S_OK ELSE S_ERROR) \o <<0>>
SockExecReply(output, fault) == (IF fault = "ok" THEN output ELSE S_ERROR) \o <<0>>

-----------------------------------------------------------------------------
(* Socket transport, class QMConnection.  m is the manager with its        *)
(* connection: [use_websvc, connection (the handle is not None),           *)
(* connected (QMConnection.connected)].                                    *)

\* _receive_data on a response that arrives whole
_receive_data(stream) == RStripNul(stream)

\* QMConnection.connect: True only on a handshake answer starting with OK
QMConnection_connect(fault) ==
    IF fault \in {"refused", "recv_error"} THEN FALSE       \* raised and caught
    ELSE StartsWith(IF fault = "ok" THEN S_OK ELSE S_ERROR, S_OK)

\* qmclient.connect(..., use_websvc = False): the connection or None
qmclient_connect(fault) == QMConnection_connect(fault)

\* the transport operations give [st, val, trips]
T(st, val, trips) == [st |-> st, val |-> val, trips |-> trips]

QMConnection_execute(m, st, output, fault) ==
    IF ~m.connected THEN T(st, PStr(<<>>), 0)
    ELSE IF fault \in {"send_error", "recv_error"} THEN T(st, PStr(<<>>), 1)
    ELSE T(st, PStr(_receive_data(SockExecReply(output, fault))), 1)

\* QMConnection.read as it would be without the test for an ERROR reply
QMConnection_read_unchecked(m, st, file_name, record_id, fault) ==
    IF ~m.connected THEN T(st, PStr(<<>>), 0)
    ELSE IF fault \in {"send_error", "recv_error"} THEN T(st, PStr(<<>>), 1)
    ELSE T(st, PStr(_receive_data(SockReadReply(st, file_name, record_id, fault))), 1)

QMConnection_read(m, st, file_name, record_id, fault) ==
    IF ~m.connected THEN T(st, PStr(<<>>), 0)
    ELSE IF fault \in {"send_error", "recv_error"} THEN T(st, PStr(<<>>), 1)
    ELSE LET response == _receive_data(SockReadReply(st, file_name, record_id, fault))
         IN IF StartsWith(response, S_ERROR)
            THEN T(st, PStr(<<>>), 1)
            ELSE T(st, PStr(response), 1)

QMConnection_write(m, st, file_name, record_id, data, fault) ==
    IF ~m.connected THEN T(st, PFalse, 0)
    ELSE IF fault = "send_error" THEN T(st, PFalse, 1)
    ELSE LET st2 == IF Ran(fault) THEN ServerPut(st, file_name, record_id, data) ELSE st
         IN IF fault = "recv_error" THEN T(st2, PFalse, 1)
            ELSE T(st2, PBool(StartsWith(_receive_data(SockAckReply(fault)), S_OK)), 1)

QMConnection_delete(m, st, file_name, record_id, fault) ==
    IF ~m.connected THEN T(st, PFalse, 0)
    ELSE IF fault = "send_error" THEN T(st, PFalse, 1)
    ELSE LET st2 == IF Ran(fault) THEN ServerDrop(st, file_name, record_id) ELSE st
         IN IF fault = "recv_error" THEN T(st2, PFalse, 1)
            ELSE T(st2, PBool(StartsWith(_receive_data(SockAckReply(fault)), S_OK)), 1)

-----------------------------------------------------------------------------
(* Web service requests as OpenQMManager posts them.  A request gives     *)
(* [st, raised, status, json]: requests.post or response.json() raised, or *)
(* the status and the decoded body.                                        *)

W(st, raised, status, json) ==
    [st |-> st, raised |-> raised, status |-> status, json |-> json]

WebPost(st, st_ran, fault, answer) ==
    CASE fault = "send_error" -> W(st, TRUE, 0, PNone)
      [] fault = "recv_error" -> W(st_ran, TRUE, 0, PNone)
      [] fault = "bad_body" -> W(st_ran, TRUE, 200, PNone)
      [] fault = "non200" -> W(st, FALSE, 500, PNone)
      [] fault = "refuse" -> W(st, FALSE, 200, PDict(EmptyDict))
      [] OTHER -> W(st_ran, FALSE, 200, answer)

S_record == <<114, 101, 99, 111, 114, 100>>     \* 'record'
S_success == <<115, 117, 99, 99, 101, 115, 115>> \* 'success'
S_result == <<114, 101, 115, 117, 108, 116>>    \* 'result'

Json1(key, val) == PDict(<<[key |-> key, val |-> val]>>)

-----------------------------------------------------------------------------
(* Connection manager, class OpenQMManager.  A command gives               *)
(* [m, st, val, exc, att, trips]: the manager and the store after it, the  *)
(* value returned, whether an exception left the method, and the connect   *)
(* attempts and round trips it made.  env = [cf, io] holds the fault of    *)
(* the handshake and of the command's round trip.                          *)

R(m, st, val, exc, att, trips) ==
    [m |-> m, st |-> st, val |-> val, exc |-> exc, att |-> att, trips |-> trips]

\* try: ... except Exception: return sentinel
Catch(r, sentinel) == IF r.exc THEN [r EXCEPT !.val = sentinel, !.exc = FALSE] ELSE r

\* OpenQMManager.connect as it would be with a second try after a failed one
OpenQMManager_connect_retry(m, fault) ==
    IF m.use_websvc
    THEN [m |-> m, ok |-> TRUE, att |-> 0]
    ELSE IF qmclient_connect(fault)
    THEN [m |-> [m EXCEPT !.connection = TRUE, !.connected = TRUE], ok |-> TRUE, att |-> 1]
    ELSE [m |-> [m EXCEPT !.connection = qmclient_connect(fault),
                          !.connected = qmclient_connect(fault)],
          ok |-> qmclient_connect(fault), att |-> 2]

\* OpenQMManager.connect: nothing to do for the web service; otherwise the
\* handle becomes qmclient.connect's result
OpenQMManager_connect(m, fault) ==
    IF m.use_websvc
    THEN [m |-> m, ok |-> TRUE, att |-> 0]
    ELSE LET conn == qmclient_connect(fault)
         IN [m |-> [m EXCEPT !.connection = conn, !.connected = conn],
             ok |-> conn, att |-> 1]

RECURSIVE execute_command(_, _, _, _)
RECURSIVE read_record(_, _, _, _, _)
RECURSIVE write_record(_, _, _, _, _, _)
RECURSIVE delete_record(_, _, _, _, _)

\* body of execute_command's try; output is what the command prints on the server
execute_command_try(m, st, output, env) ==
    IF m.use_websvc
    THEN LET w == WebPost(st, st, env.io, Json1(S_result, PStr(output)))
         IN IF w.raised THEN R(m, w.st, PNone, TRUE, 0, 1)
            ELSE IF w.status = 200
            THEN R(m, w.st, Get(w.json.l, S_result, PStr(<<>>)), FALSE, 0, 1)
            ELSE R(m, w.st, PStr(<<>>), FALSE, 0, 1)
    ELSE IF m.connection
    THEN LET t == QMConnection_execute(m, st, output, env.io)
         IN R(m, t.st, t.val, FALSE, 0, t.trips)
    ELSE LET c == OpenQMManager_connect(m, env.cf)
         IN IF c.ok
            THEN LET r == execute_command(c.m, st, output, env)
                 IN [r EXCEPT !.att = @ + c.att]
            ELSE R(c.m, st, PStr(<<>>), FALSE, c.att, 0)

execute_command(m, st, output, env) ==
    Catch(execute_command_try(m, st, output, env), PStr(<<>>))

\* body of read_record's try
read_record_try(m, st, file_name, record_id, env) ==
    IF m.use_websvc
    THEN LET found == IF ServerHas(st, file_name, record_id)
                      THEN st[file_name][record_id].data ELSE <<>>
             w == WebPost(st, st, env.io, Json1(S_record, PStr(found)))
         IN IF w.raised THEN R(m, w.st, PNone, TRUE, 0, 1)
            ELSE IF w.status = 200
            THEN LET data == Get(w.json.l, S_record, PStr(<<>>))
                 IN IF Truthy(data)
                    THEN R(m, w.st, PDict(_parse_record(data)), FALSE, 0, 1)
                    ELSE R(m, w.st, PNone, FALSE, 0, 1)
            ELSE R(m, w.st, PNone, FALSE, 0, 1)
    ELSE IF m.connection
    THEN LET t == QMConnection_read(m, st, file_name, record_id, env.io)
         IN IF Truthy(t.val)
            THEN R(m, t.st, PDict(_parse_record(t.val)), FALSE, 0, t.trips)
            ELSE R(m, t.st, PNone, FALSE, 0, t.trips)
    ELSE LET c == OpenQMManager_connect(m, env.cf)
         IN IF c.ok
            THEN LET r == read_record(c.m, st, file_name, record_id, env)
                 IN [r EXCEPT !.att = @ + c.att]
            ELSE R(c.m, st, PNone, FALSE, c.att, 0)

read_record(m, st, file_name, record_id, env) ==
    Catch(read_record_try(m, st, file_name, record_id, env), PNone)

\* body of write_record's try
write_record_try(m, st, file_name, record_id, data, env) ==
    LET record_data == _format_record(data)
    IN IF m.use_websvc
       THEN LET w == WebPost(st, ServerPut(st, file_name, record_id, record_data),
                             env.io, Json1(S_success, PTrue))
            IN IF w.raised THEN R(m, w.st, PNone, TRUE, 0, 1)
               ELSE IF w.status = 200
               THEN R(m, w.st, Get(w.json.l, S_success, PFalse), FALSE, 0, 1)
               ELSE R(m, w.st, PFalse, FALSE, 0, 1)
       ELSE IF m.connection
       THEN LET t == QMConnection_write(m, st, file_name, record_id, record_data, env.io)
            IN R(m, t.st, t.val, FALSE, 0, t.trips)
       ELSE LET c == OpenQMManager_connect(m, env.cf)
            IN IF c.ok
               THEN LET r == write_record(c.m, st, file_name, record_id, data, env)
                    IN [r EXCEPT !.att = @ + c.att]
               ELSE R(c.m, st, PFalse, FALSE, c.att, 0)

\* write_record as it would be without its except clause
write_record_uncaught(m, st, file_name, record_id, data, env) ==
    write_record_try(m, st, file_name, record_id, data, env)

write_record(m, st, file_name, record_id, data, env) ==
    Catch(write_record_try(m, st, file_name, record_id, data, env), PFalse)

\* body of delete_record's try
delete_record_try(m, st, file_name, record_id, env) ==
    IF m.use_websvc
    THEN LET w == WebPost(st, ServerDrop(st, file_name, record_id),
                          env.io, Json1(S_success, PTrue))
         IN IF w.raised THEN R(m, w.st, PNone, TRUE, 0, 1)
            ELSE IF w.status = 200
            THEN R(m, w.st, Get(w.json.l, S_success, PFalse), FALSE, 0, 1)
            ELSE R(m, w.st, PFalse, FALSE, 0, 1)
    ELSE IF m.connection
    THEN LET t == QMConnection_delete(m, st, file_name, record_id, env.io)
         IN R(m, t.st, t.val, FALSE, 0, t.trips)
    ELSE LET c == OpenQMManager_connect(m, env.cf)
         IN IF c.ok
            THEN LET r == delete_record(c.m, st, file_name, record_id, env)
                 IN [r EXCEPT !.att = @ + c.att]
            ELSE R(c.m, st, PFalse, FALSE, c.att, 0)

delete_record(m, st, file_name, record_id, env) ==
    Catch(delete_record_try(m, st, file_name, record_id, env), PFalse)

-----------------------------------------------------------------------------
(* Entity repository, class OpenQMManager.  An operation's env is          *)
(* [cf, io]: the fault of a handshake, and the faults of its round trips   *)
(* in the order it makes them (a round trip past the end of io succeeds).  *)
(* Besides a command's fields an operation gives steps, the values its     *)
(* commands returned, in order.                                            *)

IoAt(env, k) == IF k <= Len(env.io) THEN env.io[k] ELSE "ok"
E1(env, k) == [cf |-> env.cf, io |-> IoAt(env, k)]

RS(m, st, val, exc, att, trips, steps) ==
    [m |-> m, st |-> st, val |-> val, exc |-> exc, att |-> att, trips |-> trips,
     steps |-> steps]

\* x in container / x not in container, and whether the test raises
InRaises(container) == container.k \notin {"list", "str", "dict"}
In(x, container) ==
    CASE container.k = "list" -> \E j \in 1..Len(container.l) : container.l[j] = x
      [] container.k = "str" -> x.k = "str" /\ IsSubstring(x.s, container.s)
      [] OTHER -> FALSE

\* a < b, and whether it raises (str against anything but str)
LessRaises(a, b) == a.k # "str" \/ b.k # "str"
Less(a, b) == ~LessRaises(a, b) /\ StrLess(a.s, b.s)

\* add_thread after its write_record returned w
AddThreadResult(thread_id, w) ==
    RS(w.m, w.st, IF w.exc THEN PNone ELSE IF Truthy(w.val) THEN thread_id ELSE PStr(<<>>),
       w.exc, w.att, w.trips, <<w.val>>)

\* add_thread: the caller's id or a generated one, stored as 'id', then one write
add_thread(m, st, thread_data, uuid, env) ==
    AddThreadResult(Get(thread_data, S_id, PStr(uuid)),
                    write_record(m, st, "THREADS", Get(thread_data, S_id, PStr(uuid)).s,
                                 Set(thread_data, S_id, Get(thread_data, S_id, PStr(uuid))),
                                 E1(env, 1)))

\* the date fields of the thread after add_email widened them by
\* email_date, openqm_manager.py:543-548
WidenStarted(thread, email_date, started) ==
    IF Truthy(email_date) /\ (~Truthy(started) \/ Less(email_date, started))
    THEN Set(thread, S_date_started, email_date) ELSE thread
WidenLast(thread, email_date, last_date) ==
    IF Truthy(email_date) /\ (~Truthy(last_date) \/ Less(last_date, email_date))
    THEN Set(thread, S_last_date, email_date) ELSE thread
WidenRaises(email_date, started, last_date) ==
    \/ Truthy(email_date) /\ Truthy(started) /\ LessRaises(email_date, started)
    \/ Truthy(email_date) /\ Truthy(last_date) /\ LessRaises(last_date, email_date)

\* the thread after add_email appended email_id to emails and widened its
\* dates, openqm_manager.py:537-548; exc when a statement raises
LinkedDates(thread, emails, email_date) ==
    [thread |-> WidenLast(WidenStarted(thread, email_date,
                                       Get(thread, S_date_started, PNone)),
                          email_date, Get(thread, S_last_date, PNone)),
     exc |-> emails.k # "list"
             \/ WidenRaises(email_date, Get(thread, S_date_started, PNone),
                            Get(thread, S_last_date, PNone))]
LinkedThread(thread, emails, email_id, email_data) ==
    LinkedDates(Set(thread, S_emails, PList(Append(emails.l, email_id))), emails,
                Get(email_data, S_date_sent, PNone))

\* add_email as it would be if a failed thread write failed the call
AddEmailWritten_strict(email_id, w1, r2, w3) ==
    RS(w3.m, w3.st,
       IF w3.exc THEN PNone ELSE IF Truthy(w3.val) THEN email_id ELSE PStr(<<>>), w3.exc,
       w1.att + r2.att + w3.att, w1.trips + r2.trips + w3.trips,
       <<w1.val, r2.val, w3.val>>)

\* add_email after the thread write returned w3
AddEmailWritten(email_id, w1, r2, w3) ==
    RS(w3.m, w3.st, IF w3.exc THEN PNone ELSE email_id, w3.exc,
       w1.att + r2.att + w3.att, w1.trips + r2.trips + w3.trips,
       <<w1.val, r2.val, w3.val>>)

\* add_email with the linked thread lk at hand: write it back
AddEmailLink(email_id, thread_id, env, w1, r2, lk) ==
    IF lk.exc
    THEN RS(r2.m, r2.st, PNone, TRUE, w1.att + r2.att, w1.trips + r2.trips,
            <<w1.val, r2.val>>)
    ELSE AddEmailWritten(email_id, w1, r2,
                         write_record(r2.m, r2.st, "THREADS", thread_id.s, lk.thread,
                                      E1(env, 3)))

\* add_email with the thread's email list at hand: the membership test
AddEmailMember(email_id, thread_id, data, env, w1, r2, emails) ==
    IF InRaises(emails)
    THEN RS(r2.m, r2.st, PNone, TRUE, w1.att + r2.att, w1.trips + r2.trips,
            <<w1.val, r2.val>>)
    ELSE IF In(email_id, emails)
    THEN RS(r2.m, r2.st, email_id, FALSE, w1.att + r2.att, w1.trips + r2.trips,
            <<w1.val, r2.val>>)
    ELSE AddEmailLink(email_id, thread_id, env, w1, r2,
                      LinkedThread(r2.val.l, emails, email_id, data))

\* add_email after the thread read returned r2
AddEmailRead(email_id, thread_id, data, env, w1, r2) ==
    IF r2.exc
    THEN RS(r2.m, r2.st, PNone, TRUE, w1.att + r2.att, w1.trips + r2.trips,
            <<w1.val, r2.val>>)
    ELSE IF ~Truthy(r2.val)
    THEN RS(r2.m, r2.st, email_id, FALSE, w1.att + r2.att, w1.trips + r2.trips,
            <<w1.val, r2.val>>)
    ELSE AddEmailMember(email_id, thread_id, data, env, w1, r2,
                        Get(r2.val.l, S_emails, PList(<<>>)))

\* add_email as it would be if it went on to the thread after a primary
\* write that returned False
AddEmailPrimary_unchecked(email_id, thread_id, data, env, w1) ==
    IF w1.exc THEN RS(w1.m, w1.st, PNone, TRUE, w1.att, w1.trips, <<w1.val>>)
    ELSE IF ~Truthy(thread_id)
    THEN RS(w1.m, w1.st, email_id, FALSE, w1.att, w1.trips, <<w1.val>>)
    ELSE AddEmailRead(email_id, thread_id, data, env, w1,
                      read_record(w1.m, w1.st, "THREADS", thread_id.s, E1(env, 2)))

\* add_email after the primary write returned w1
AddEmailPrimary(email_id, thread_id, data, env, w1) ==
    IF w1.exc THEN RS(w1.m, w1.st, PNone, TRUE, w1.att, w1.trips, <<w1.val>>)
    ELSE IF ~Truthy(w1.val)
    THEN RS(w1.m, w1.st, PStr(<<>>), FALSE, w1.att, w1.trips, <<w1.val>>)
    ELSE IF ~Truthy(thread_id)
    THEN RS(w1.m, w1.st, email_id, FALSE, w1.att, w1.trips, <<w1.val>>)
    ELSE AddEmailRead(email_id, thread_id, data, env, w1,
                      read_record(w1.m, w1.st, "THREADS", thread_id.s, E1(env, 2)))

\* add_email with the id settled and stored as 'id'
AddEmailData(m, st, email_id, data, env) ==
    AddEmailPrimary(email_id, Get(data, S_thread_id, PNone), data, env,
                    write_record(m, st, "EMAILS", email_id.s, data, E1(env, 1)))

\* add_email
add_email(m, st, email_data, uuid, env) ==
    AddEmailData(m, st, Get(email_data, S_id, PStr(uuid)),
                 Set(email_data, S_id, Get(email_data, S_id, PStr(uuid))), env)

\* a command's result as an operation's
OneStep(r) == RS(r.m, r.st, r.val, r.exc, r.att, r.trips, <<r.val>>)

\* a get as it would be if it read again after a read that found nothing
GetAgain(r, r2) ==
    RS(r2.m, r2.st, r2.val, r2.exc, r.att + r2.att, r.trips + r2.trips, <<r.val, r2.val>>)
GetRetry(r, file_name, record_id, env) ==
    IF Truthy(r.val) \/ r.exc THEN OneStep(r)
    ELSE GetAgain(r, read_record(r.m, r.st, file_name, record_id, E1(env, 2)))
get_retry(m, st, file_name, record_id, env) ==
    GetRetry(read_record(m, st, file_name, record_id, E1(env, 1)), file_name, record_id, env)

\* get_email, get_thread, get_attachment, get_user: one read_record
get(m, st, file_name, record_id, env) ==
    OneStep(read_record(m, st, file_name, record_id, E1(env, 1)))

\* the loop body as it would be without the test `if record:`
Collect_unfiltered(acc, r) ==
    RS(r.m, r.st, IF ~r.exc THEN PList(Append(acc.val.l, r.val)) ELSE acc.val,
       r.exc, acc.att + r.att, acc.trips + r.trips, Append(acc.steps, r.val))

\* `if record: results.append(record)` after a read returned r
Collect(acc, r) ==
    RS(r.m, r.st,
       IF Truthy(r.val) /\ ~r.exc THEN PList(Append(acc.val.l, r.val)) ELSE acc.val,
       r.exc, acc.att + r.att, acc.trips + r.trips, Append(acc.steps, r.val))

\* the loop `for record_id in ids: record = read_record(file, record_id);
\* if record: results.append(record)`, the i-th read under fault io[k0 + i];
\* val is the list of results
RECURSIVE ReadEach(_, _, _, _, _, _)
ReadEach(acc, file_name, ids, env, k0, i) ==
    IF i > Len(ids) \/ acc.exc THEN acc
    ELSE ReadEach(Collect(acc, read_record(acc.m, acc.st, file_name, ids[i],
                                           E1(env, k0 + i))),
                  file_name, ids, env, k0, i + 1)

\* an operation that made the command x and then the reads rs
Then(x, rs) ==
    RS(rs.m, rs.st, IF rs.exc THEN PNone ELSE rs.val, rs.exc, x.att + rs.att,
       x.trips + rs.trips, <<x.val>> \o rs.steps)

\* result_ids = query_result.strip().split('\n'), each stripped again
ResultIds(lines) == [i \in 1..Len(lines) |-> Strip(lines[i])]

\* query after execute_command returned x
QueryResolve(x, env) ==
    IF x.exc THEN RS(x.m, x.st, PNone, TRUE, x.att, x.trips, <<x.val>>)
    ELSE IF ~Truthy(x.val)
    THEN RS(x.m, x.st, PList(<<>>), FALSE, x.att, x.trips, <<x.val>>)
    ELSE IF x.val.k # "str"
    THEN RS(x.m, x.st, PNone, TRUE, x.att, x.trips, <<x.val>>)
    ELSE Then(x, ReadEach(RS(x.m, x.st, PList(<<>>), FALSE, 0, 0, <<>>), "EMAILS",
                          ResultIds(Split(Strip(x.val.s), NEWLINE)), env, 1, 1))

\* body of query's try: the phantom program and the direct query both go
\* through execute_command and resolve each output line in EMAILS;
\* output is what the server prints for the command
query_try(m, st, output, env) ==
    QueryResolve(execute_command(m, st, output, E1(env, 1)), env)

query(m, st, output, env) == Catch(query_try(m, st, output, env), PList(<<>>))

\* iterating a value: the elements of a list, the characters of a str
Elements(v) ==
    IF v.k = "str" THEN [i \in 1..Len(v.s) |-> PStr(<<v.s[i]>>)] ELSE v.l

\* the ids `for attachment_id in attachment_ids` hands to get_attachment
AttachmentIds(elements) == [i \in 1..Len(elements) |-> elements[i].s]

\* get_email_attachments after get_email returned e
AttachmentsOf(e, env) ==
    IF e.exc THEN RS(e.m, e.st, PNone, TRUE, e.att, e.trips, <<e.val>>)
    ELSE IF ~Truthy(e.val)
    THEN RS(e.m, e.st, PList(<<>>), FALSE, e.att, e.trips, <<e.val>>)
    ELSE Then(e, ReadEach(RS(e.m, e.st, PList(<<>>), FALSE, 0, 0, <<>>), "ATTACHMENTS",
                          AttachmentIds(Elements(Get(e.val.l, S_attachment_ids,
                                                     PList(<<>>)))),
                          env, 1, 1))

\* get_email_attachments
get_email_attachments(m, st, email_id, env) ==
    AttachmentsOf(read_record(m, st, "EMAILS", email_id, E1(env, 1)), env)

\* add_user, add_attachment: as add_thread, on their own files
AddTo(file_name, m, st, data, uuid, env) ==
    AddThreadResult(Get(data, S_id, PStr(uuid)),
                    write_record(m, st, file_name, Get(data, S_id, PStr(uuid)).s,
                                 Set(data, S_id, Get(data, S_id, PStr(uuid))),
                                 E1(env, 1)))
add_user(m, st, user_data, uuid, env) == AddTo("USERS", m, st, user_data, uuid, env)
add_attachment(m, st, attachment_data, uuid, env) ==
    AddTo("ATTACHMENTS", m, st, attachment_data, uuid, env)

\* get_user_by_username after execute_command returned x: the first line
\* of the output, unstripped, is read in USERS
UserByName(x, env) ==
    IF x.exc THEN RS(x.m, x.st, PNone, TRUE, x.att, x.trips, <<x.val>>)
    ELSE IF ~Truthy(x.val) \/ Split(Strip(x.val.s), NEWLINE)[1] = <<>>
    THEN RS(x.m, x.st, PNone, FALSE, x.att, x.trips, <<x.val>>)
    ELSE Then(x, OneStep(read_record(x.m, x.st, "USERS",
                                     Split(Strip(x.val.s), NEWLINE)[1], E1(env, 2))))

\* get_user_by_username; output is what the server prints for the SELECT
get_user_by_username(m, st, output, env) ==
    UserByName(execute_command(m, st, output, E1(env, 1)), env)

-----------------------------------------------------------------------------
(* Query builder: the query text search_emails and search_threads build   *)
(* from a filter mapping before they hand it to query.                     *)

S_account_id == <<97, 99, 99, 111, 117, 110, 116, 95, 105, 100>>  \* 'account_id'
\* 'from_address'
S_from_address ==
    <<102, 114, 111, 109, 95, 97, 100, 100, 114, 101, 115, 115>>
S_to_address == <<116, 111, 95, 97, 100, 100, 114, 101, 115, 115>>  \* 'to_address'
S_subject == <<115, 117, 98, 106, 101, 99, 116>>  \* 'subject'
S_start_date == <<115, 116, 97, 114, 116, 95, 100, 97, 116, 101>>  \* 'start_date'
S_end_date == <<101, 110, 100, 95, 100, 97, 116, 101>>  \* 'end_date'
S_SELECT_EMAILS == <<83, 69, 76, 69, 67, 84, 32, 69, 77, 65, 73, 76, 83>>  \* 'SELECT EMAILS'
\* 'SELECT THREADS'
S_SELECT_THREADS ==
    <<83, 69, 76, 69, 67, 84, 32, 84, 72, 82, 69, 65, 68, 83>>
S_WITH == <<32, 87, 73, 84, 72, 32>>  \* ' WITH '
S_AND == <<32, 65, 78, 68, 32>>  \* ' AND '
S_ACCOUNT_ID == <<65, 67, 67, 79, 85, 78, 84, 95, 73, 68>>  \* 'ACCOUNT_ID'
S_THREAD_ID == <<84, 72, 82, 69, 65, 68, 95, 73, 68>>  \* 'THREAD_ID'
S_FROM_ADDRESS == <<70, 82, 79, 77, 95, 65, 68, 68, 82, 69, 83, 83>>  \* 'FROM_ADDRESS'
S_TO_ADDRESSES == <<84, 79, 95, 65, 68, 68, 82, 69, 83, 83, 69, 83>>  \* 'TO_ADDRESSES'
S_SUBJECT == <<83, 85, 66, 74, 69, 67, 84>>  \* 'SUBJECT'
S_DATE_SENT == <<68, 65, 84, 69, 95, 83, 69, 78, 84>>  \* 'DATE_SENT'
S_DATE_STARTED == <<68, 65, 84, 69, 95, 83, 84, 65, 82, 84, 69, 68>>  \* 'DATE_STARTED'
S_LAST_DATE == <<76, 65, 83, 84, 95, 68, 65, 84, 69>>  \* 'LAST_DATE'
S_IN == <<32, 73, 78, 32, 40>>  \* ' IN ('
S_EQ == <<32, 61, 32, 39>>  \* " = '"
S_LIKE == <<32, 76, 73, 75, 69, 32, 39, 37>>  \* " LIKE '%"
S_GE == <<32, 62, 61, 32, 39>>  \* " >= '"
S_LE == <<32, 60, 61, 32, 39>>  \* " <= '"
S_QUOTE == <<39>>  \* "'"
S_PCT_QUOTE == <<37, 39>>  \* "%'"
S_RPAREN == <<41>>  \* ')'
S_QCQ == <<39, 44, 39>>  \* "','"
S_COMMA_SP == <<44, 32>>  \* ', '
S_LBRACKET == <<91>>  \* '['
S_RBRACKET == <<93>>  \* ']'

\* sep.join(parts) for a text sep
JoinStr(parts, sep) ==
    LET RECURSIVE F(_)
        F(i) == IF i > Len(parts) THEN <<>>
                ELSE IF i = Len(parts) THEN parts[i]
                ELSE parts[i] \o sep \o F(i + 1)
    IN F(1)

\* repr of a str without quotes or backslashes, and of a list of such str
PyReprStr(t) == S_QUOTE \o t \o S_QUOTE
PyReprList(l) ==
    S_LBRACKET \o JoinStr([j \in 1..Len(l) |-> PyReprStr(l[j].s)], S_COMMA_SP) \o S_RBRACKET

\* f"{v}": a str as it is, a list as its repr
PyFormat(v) ==
    IF v.k = "list" THEN PyReprList(v.l) ELSE PyStr(v)

\* "'" + "','".join(ids) + "'"
QuotedList(l) ==
    S_QUOTE \o JoinStr([j \in 1..Len(l) |-> l[j].s], S_QCQ) \o S_QUOTE

InClause(field, v) == field \o S_IN \o QuotedList(v.l) \o S_RPAREN
EqClause(field, v) == field \o S_EQ \o PyFormat(v) \o S_QUOTE
LikeClause(field, v) == field \o S_LIKE \o PyFormat(v) \o S_PCT_QUOTE
GeClause(field, v) == field \o S_GE \o PyFormat(v) \o S_QUOTE
LeClause(field, v) == field \o S_LE \o PyFormat(v) \o S_QUOTE

\* query_parts.append(...) when the filter is present
Part(d, key, clause) == IF HasKey(d, key) THEN <<clause>> ELSE <<>>

\* search_emails: the parts in the order of the method's if statements
EmailQueryParts(d) ==
    Part(d, S_account_id,
         IF Get(d, S_account_id, PNone).k = "list"
         THEN InClause(S_ACCOUNT_ID, Get(d, S_account_id, PNone))
         ELSE EqClause(S_ACCOUNT_ID, Get(d, S_account_id, PNone)))
    \o Part(d, S_thread_id, EqClause(S_THREAD_ID, Get(d, S_thread_id, PNone)))
    \o Part(d, S_from_address, LikeClause(S_FROM_ADDRESS, Get(d, S_from_address, PNone)))
    \o Part(d, S_to_address, LikeClause(S_TO_ADDRESSES, Get(d, S_to_address, PNone)))
    \o Part(d, S_subject, LikeClause(S_SUBJECT, Get(d, S_subject, PNone)))
    \o Part(d, S_start_date, GeClause(S_DATE_SENT, Get(d, S_start_date, PNone)))
    \o Part(d, S_end_date, LeClause(S_DATE_SENT, Get(d, S_end_date, PNone)))

\* search_threads
ThreadQueryParts(d) ==
    Part(d, S_subject, LikeClause(S_SUBJECT, Get(d, S_subject, PNone)))
    \o Part(d, S_start_date, GeClause(S_DATE_STARTED, Get(d, S_start_date, PNone)))
    \o Part(d, S_end_date, LeClause(S_LAST_DATE, Get(d, S_end_date, PNone)))

\* "SELECT <FILE> WITH " + " AND ".join(query_parts), or "SELECT <FILE>"
BuildQuery(select, parts) ==
    IF parts # <<>> THEN select \o S_WITH \o JoinStr(parts, S_AND) ELSE select

\* search_emails as it would be with the subject test ahead of the others
search_emails_query_subject_first(d) ==
    BuildQuery(S_SELECT_EMAILS,
               Part(d, S_subject, LikeClause(S_SUBJECT, Get(d, S_subject, PNone)))
               \o EmailQueryParts(SelectSeq(d, LAMBDA e : e.key # S_subject)))

\* the query text search_emails hands to query
search_emails_query(d) == BuildQuery(S_SELECT_EMAILS, EmailQueryParts(d))

\* the query text search_threads hands to query
search_threads_query(d) == BuildQuery(S_SELECT_THREADS, ThreadQueryParts(d))

-----------------------------------------------------------------------------
(* Repository runs: a caller issues repository operations one after        *)
(* another against a manager and a server; each operation runs to          *)
(* completion under a chosen fault environment.                            *)

MaxThreadFields == 6  \* add_email runs while the thread record has fewer fields

S_d05 == <<50, 48, 50, 52, 45, 48, 49, 45, 48, 53>>     \* '2024-01-05'
S_d10 == <<50, 48, 50, 52, 45, 48, 49, 45, 49, 48>>     \* '2024-01-10'
S_d20 == <<50, 48, 50, 52, 45, 48, 49, 45, 50, 48>>     \* '2024-01-20'
S_thread == <<116, 104, 114, 101, 97, 100>>             \* 'thread'
Dates == {S_d05, S_d10, S_d20}

KV(key, val) == [key |-> key, val |-> val]

\* what callers pass to add_thread: a bare id, or a full new thread
BareThreadDatas == { <<KV(S_id, PStr(t))>> : t \in ThreadIds }
ThreadDatas ==
    BareThreadDatas \cup
    { <<KV(S_id, PStr(t)), KV(S_type, PStr(S_thread)), KV(S_emails, PList(<<>>)),
        KV(S_date_started, PStr(<<>>)), KV(S_last_date, PStr(<<>>))>> : t \in ThreadIds }

\* what callers pass to add_email in the repository runs
EmailDatas ==
    { <<KV(S_id, PStr(S_e1)), KV(S_thread_id, PStr(t)), KV(S_date_sent, PStr(S_d10))>> :
          t \in ThreadIds } \cup
    { <<KV(S_id, PStr(S_e2)), KV(S_thread_id, PStr(t)), KV(S_date_sent, PStr(S_d05))>> :
          t \in ThreadIds } \cup
    { <<KV(S_id, PStr(S_e2))>> }

\* what callers pass to add_email in the linkage runs
LinkEmailDatas ==
    { <<KV(S_id, PStr(e)), KV(S_thread_id, PStr(t)), KV(S_date_sent, PStr(d))>> :
          e \in EmailIds, t \in ThreadIds, d \in Dates }

\* fault environments: no fault, one faulty round trip among the first
\* three, or a faulty handshake when the operation has to connect
NeedsConnect(m) == ~m.use_websvc /\ ~m.connection
EnvsOf(m) ==
    { [cf |-> "ok", io |-> <<>>] } \cup
    { [cf |-> "ok", io |-> [i \in 1..3 |-> IF i = k THEN f ELSE "ok"]] :
          k \in 1..3, f \in (IF m.use_websvc THEN WebFaults ELSE SockFaults) \ {"ok"} } \cup
    (IF NeedsConnect(m)
     THEN { [cf |-> c, io |-> <<>>] : c \in ConnFaults \ {"ok"} } ELSE {})

\* the texts a query may print: email ids, one per line
QueryOutputs ==
    { <<>>, S_e1 \o <<NEWLINE>>, S_e1 \o <<NEWLINE>> \o S_e2 }

NoLast ==
    [op |-> "none", arg |-> <<>>, val |-> PNone, exc |-> FALSE, att |-> 0, trips |-> 0,
     steps |-> <<>>, cf_fault |-> FALSE, fault_at |-> 0]

\* the round trip of env that carries a fault, 0 when none does
FaultAt(env) ==
    IF \E k \in 1..Len(env.io) : env.io[k] # "ok"
    THEN CHOOSE k \in 1..Len(env.io) : env.io[k] # "ok"
    ELSE 0

\* the record of an operation: what it returned (val, or exc when an
\* exception left it), its connect attempts, round trips and steps, whether
\* its handshake was faulty (cf_fault) and which round trip was (fault_at)
Done(op, arg, r, env) ==
    [op |-> op, arg |-> arg, val |-> r.val, exc |-> r.exc, att |-> r.att, trips |-> r.trips,
     steps |-> r.steps, cf_fault |-> env.cf # "ok", fault_at |-> FaultAt(env)]

NumFields(w) == Len(Split(w, FIELD_MARK))

WebMgr == [use_websvc |-> TRUE, connection |-> FALSE, connected |-> FALSE]
SockMgr == [use_websvc |-> FALSE, connection |-> FALSE, connected |-> FALSE]
OkEnv == [cf |-> "ok", io |-> <<>>]

-----------------------------------------------------------------------------
(* Each specification below leaves the variables of the others at rest.   *)

NoCall == [kind |-> "none", file |-> "USERS", id |-> <<>>, data |-> <<>>, output |-> <<>>]
NoRes == [val |-> PNone, exc |-> FALSE, att |-> 0, iofail |-> FALSE, prevdrop |-> FALSE,
          connfail |-> FALSE]

CodecIdle == rec = <<>> /\ wire = PNone /\ rt_rec = <<>> /\ rt_wire = <<>>
CmdIdle == cpc = "idle" /\ ccall = NoCall /\ cres = NoRes
ParityIdle == store2 = EmptyStore /\ last2 = NoLast

NoQueries == [emails |-> <<>>, threads |-> <<>>]
NewConn == [socket |-> FALSE, connected |-> FALSE]
NoSel == [op |-> "none", ids |-> <<>>, fault |-> "ok", val |-> PNone, was |-> FALSE]
NoProc == [pc |-> "idle", data |-> <<>>, thread |-> PNone, val |-> PNone]

QueryIdle == filters = <<>> /\ qtext = NoQueries
ConnIdle == qmc = NewConn /\ qmc_ok = FALSE /\ sel = NoSel
ConcIdle == procs = [p \in {1, 2} |-> NoProc] /\ cbase = EmptyStore

NoRx ==
    [pending |-> <<>>, closed |-> FALSE, pc |-> "idle", calls |-> 0, own |-> <<>>,
     chunks |-> <<>>, raw |-> [val |-> <<>>, exc |-> FALSE], val |-> PNone]
RecvIdle == rx = NoRx

-----------------------------------------------------------------------------
(* Codec runs: either a record or a wire string grows field by field, and *)
(* each step applies the round trip to it.                                 *)

S_a == <<97>>
S_b == <<98>>

\* field shapes of a record: scalars, value sequences (one element too),
\* and sequences holding sub-value sequences
RichValues ==
    { PStr(S_a), PStr(S_b), PStr(<<>>),
      PList(<<PStr(S_a), PStr(S_b)>>),
      PList(<<PStr(S_a)>>),
      PList(<<PList(<<PStr(S_a), PStr(S_b)>>), PStr(S_b)>>) }
PlainValues == { PStr(S_a), PStr(S_b) }

\* field texts of a wire string
RichTexts ==
    { S_a, S_b, <<>>,
      <<97, VALUE_MARK, 98>>,
      <<97, SUBVALUE_MARK, 98>>,
      <<97, SUBVALUE_MARK, 98, VALUE_MARK, 98>>,
      <<97, VALUE_MARK>> }
PlainTexts == { S_a, S_b }

CodecInit ==
    /\ CodecIdle
    /\ QueryIdle
    /\ ConnIdle
    /\ ConcIdle
    /\ RecvIdle
    /\ mgr = SockMgr
    /\ store = EmptyStore
    /\ last = NoLast
    /\ linked = <<>>
    /\ CmdIdle
    /\ ParityIdle

\* the caller adds field<n> to the record; both codec functions run
CodecAddField ==
    /\ wire.k = "none"
    /\ Len(rec) < MaxFields
    /\ \E v \in (IF Len(rec) < MaxRichFields THEN RichValues ELSE PlainValues) :
          LET r == Append(rec, [key |-> FieldKey(Len(rec)), val |-> v])
          IN /\ rec' = r
             /\ rt_rec' = parse_record(PStr(format_record(r)))
    /\ UNCHANGED <<wire, rt_wire, mgr, store, last, linked, cmdVars, parityVars, queryVars, connVars, concVars, recvVars>>

\* the server's wire string grows by one field; both codec functions run
CodecAddText ==
    /\ rec = EmptyDict
    /\ \E t \in (IF wire.k = "none" \/ Len(Split(wire.s, FIELD_MARK)) < MaxRichFields
                 THEN RichTexts ELSE PlainTexts) :
          LET w == IF wire.k = "none" THEN t ELSE wire.s \o <<FIELD_MARK>> \o t
          IN /\ Len(Split(w, FIELD_MARK)) <= MaxFields
             /\ wire' = PStr(w)
             /\ rt_wire' = format_record(parse_record(PStr(w)))
    /\ UNCHANGED <<rec, rt_rec, mgr, store, last, linked, cmdVars, parityVars, queryVars, connVars, concVars, recvVars>>

CodecNext == CodecAddField \/ CodecAddText

SpecCodec == CodecInit /\ [][CodecNext]_vars

-----------------------------------------------------------------------------
(* Repository runs *)

Init ==
    /\ mgr \in { [use_websvc |-> w, connection |-> FALSE, connected |-> FALSE] :
                    w \in BOOLEAN }
    /\ store = EmptyStore
    /\ last = NoLast
    /\ linked = <<>>
    /\ CodecIdle
    /\ QueryIdle
    /\ ConnIdle
    /\ ConcIdle
    /\ RecvIdle
    /\ CmdIdle
    /\ ParityIdle

Finish(op, arg, r, env) ==
    /\ mgr' = r.m
    /\ store' = r.st
    /\ last' = Done(op, arg, r, env)

\* add_thread for a thread that is not stored yet
AddThreadOf(datas, envs) ==
    /\ \E thread_data \in datas, env \in envs :
          /\ ~ServerHas(store, "THREADS", Get(thread_data, S_id, PStr(S_u1)).s)
          /\ Finish("add_thread", Get(thread_data, S_id, PStr(S_u1)).s,
                    add_thread(mgr, store, thread_data, S_u1, env), env)
    /\ UNCHANGED <<linked, codecVars, cmdVars, parityVars, queryVars, connVars, concVars, recvVars>>

\* linked remembers, in order, every add_email that returned its id after
\* a thread write that returned True: [thread, email, date]
Remember(email_data, r) ==
    linked' = IF Len(r.steps) = 3 /\ Truthy(r.steps[3]) /\ ~r.exc
              THEN Append(linked, [thread |-> Get(email_data, S_thread_id, PNone).s,
                                   email |-> r.val.s,
                                   date |-> Get(email_data, S_date_sent, PNone)])
              ELSE linked

AddEmailEffect(email_data, env, r) ==
    /\ Finish("add_email", Get(email_data, S_id, PStr(S_u1)).s, r, env)
    /\ Remember(email_data, r)

AddEmailOf(datas, envs) ==
    /\ \A t \in ThreadIds :
          ServerHas(store, "THREADS", t) =>
              NumFields(store["THREADS"][t].data) < MaxThreadFields
    /\ \E email_data \in datas, env \in envs :
          AddEmailEffect(email_data, env, add_email(mgr, store, email_data, S_u1, env))
    /\ UNCHANGED <<codecVars, cmdVars, parityVars, queryVars, connVars, concVars, recvVars>>

GetRecordOf(keys, envs) ==
    /\ \E key \in keys, env \in envs :
          Finish("get", key[2], get(mgr, store, key[1], key[2], env), env)
    /\ UNCHANGED <<linked, codecVars, cmdVars, parityVars, queryVars, connVars, concVars, recvVars>>

AddThread == AddThreadOf(BareThreadDatas, EnvsOf(mgr))
AddEmail == AddEmailOf(EmailDatas, EnvsOf(mgr))
GetRecord == GetRecordOf({<<"EMAILS", S_e1>>, <<"THREADS", S_t1>>}, EnvsOf(mgr))

Query ==
    /\ \E output \in QueryOutputs, env \in EnvsOf(mgr) :
          Finish("search", output, query(mgr, store, output, env), env)
    /\ UNCHANGED <<linked, codecVars, cmdVars, parityVars, queryVars, connVars, concVars, recvVars>>

GetEmailAttachments ==
    /\ \E id \in {S_e1}, env \in EnvsOf(mgr) :
          Finish("get_email_attachments", id,
                 get_email_attachments(mgr, store, id, env), env)
    /\ UNCHANGED <<linked, codecVars, cmdVars, parityVars, queryVars, connVars, concVars, recvVars>>

Next == AddThread \/ AddEmail \/ GetRecord \/ Query \/ GetEmailAttachments

Spec == Init /\ [][Next]_vars

-----------------------------------------------------------------------------
(* Linkage runs: threads are created and emails added to them with no      *)
(* fault anywhere, so every write succeeds.                                *)

LinkAddThread == AddThreadOf(ThreadDatas, {OkEnv})
LinkAddEmail == AddEmailOf(LinkEmailDatas, {OkEnv})
LinkGetThread == GetRecordOf({ <<"THREADS", t>> : t \in ThreadIds }, {OkEnv})

LinkNext == LinkAddThread \/ LinkAddEmail \/ LinkGetThread

SpecLink == Init /\ [][LinkNext]_vars

-----------------------------------------------------------------------------
(* Command runs: one transport-level command of the manager at a time,     *)
(* step by step.  A call enters the method; with the web service or a      *)
(* connection handle it does its round trip and returns; otherwise it      *)
(* connects and, on success, calls itself again.                           *)

MaxAttempts == 3      \* a call stops connecting after this many attempts

CmdKinds == {"execute", "read", "write", "delete"}

\* the value each command returns on failure
Sentinel(kind) ==
    CASE kind = "execute" -> PStr(<<>>)
      [] kind = "read" -> PNone
      [] OTHER -> PFalse

CmdDatas == { <<KV(S_id, PStr(S_e1))>>, <<KV(S_id, PStr(S_e1)), KV(S_type, PStr(S_a))>> }

CmdInit ==
    /\ mgr \in { [use_websvc |-> w, connection |-> FALSE, connected |-> FALSE] :
                    w \in BOOLEAN }
    /\ store = EmptyStore
    /\ last = NoLast
    /\ linked = <<>>
    /\ cpc = "idle"
    /\ ccall = NoCall
    /\ cres = NoRes
    /\ CodecIdle
    /\ QueryIdle
    /\ ConnIdle
    /\ ConcIdle
    /\ RecvIdle
    /\ ParityIdle

\* the caller calls execute_command, read_record, write_record or delete_record
CmdCall ==
    /\ cpc = "idle"
    /\ \E kind \in CmdKinds, data \in CmdDatas, output \in {<<>>, S_e1} :
          ccall' = [kind |-> kind, file |-> "USERS", id |-> S_e1,
                    data |-> IF kind = "write" THEN data ELSE EmptyDict,
                    output |-> IF kind = "execute" THEN output ELSE <<>>]
    /\ cres' = [NoRes EXCEPT !.prevdrop = cres.iofail]
    /\ cpc' = "enter"
    /\ UNCHANGED <<mgr, store, last, linked, codecVars, parityVars, queryVars, connVars, concVars, recvVars>>

\* the command atomically, for a manager that needs no connect
RunCommand(m, st, call, env) ==
    CASE call.kind = "execute" -> execute_command(m, st, call.output, env)
      [] call.kind = "read" -> read_record(m, st, call.file, call.id, env)
      [] call.kind = "write" -> write_record(m, st, call.file, call.id, call.data, env)
      [] OTHER -> delete_record(m, st, call.file, call.id, env)

\* branches `if self.use_websvc` and `elif self.connection`: the round trip
CmdRoundTrip ==
    /\ cpc = "enter"
    /\ mgr.use_websvc \/ mgr.connection
    /\ \E fault \in (IF mgr.use_websvc THEN WebFaults ELSE SockFaults) :
          LET r == RunCommand(mgr, store, ccall, [cf |-> "ok", io |-> fault])
          IN /\ mgr' = r.m
             /\ store' = r.st
             /\ cres' = [cres EXCEPT !.val = r.val, !.exc = r.exc, !.att = @ + r.att,
                                     !.iofail = ~mgr.use_websvc /\ mgr.connected
                                                /\ fault \in {"send_error", "recv_error"}]
    /\ cpc' = "done"
    /\ UNCHANGED <<ccall, last, linked, codecVars, parityVars, queryVars, connVars, concVars, recvVars>>

\* branch `else`: connect, then call the method again or return the sentinel
CmdConnect ==
    /\ cpc = "enter"
    /\ ~mgr.use_websvc /\ ~mgr.connection
    /\ cres.att < MaxAttempts
    /\ \E cf \in ConnFaults :
          LET c == OpenQMManager_connect(mgr, cf)
          IN /\ mgr' = c.m
             /\ IF c.ok
                THEN /\ cres' = [cres EXCEPT !.att = @ + c.att]
                     /\ cpc' = "enter"
                ELSE /\ cres' = [cres EXCEPT !.att = @ + c.att, !.val = Sentinel(ccall.kind),
                                             !.connfail = TRUE]
                     /\ cpc' = "done"
    /\ UNCHANGED <<store, ccall, last, linked, codecVars, parityVars, queryVars, connVars, concVars, recvVars>>

\* the value reaches the caller
CmdReturn ==
    /\ cpc = "done"
    /\ cpc' = "idle"
    /\ UNCHANGED <<mgr, store, ccall, cres, last, linked, codecVars, parityVars, queryVars, connVars, concVars, recvVars>>

CmdStep == CmdRoundTrip \/ CmdConnect \/ CmdReturn
CmdNext == CmdCall \/ CmdStep

SpecCmd == CmdInit /\ [][CmdNext]_vars

\* a call runs in the caller's thread: once made, it keeps taking steps
SpecCmdFair == SpecCmd /\ WF_vars(CmdStep)

-----------------------------------------------------------------------------
(* Parity runs: the same operation sequence through a manager on the       *)
(* socket transport (mgr, store, last) and through one on the web service  *)
(* (store2, last2), both servers starting empty, with no faults.           *)

ParityIds == {S_e1} \cup OddIds

ParityEmailDatas ==
    { <<KV(S_id, PStr(e)), KV(S_thread_id, PStr(t)), KV(S_date_sent, PStr(S_d10))>> :
          e \in ParityIds, t \in ThreadIds } \cup
    { <<KV(S_id, PStr(e))>> : e \in ParityIds }

ParityOutputs ==
    {<<>>} \cup ParityIds \cup { a \o <<NEWLINE>> \o b : a \in {S_e1}, b \in ParityIds }

ParityInit ==
    /\ mgr = SockMgr
    /\ store = EmptyStore
    /\ store2 = EmptyStore
    /\ last = NoLast
    /\ last2 = NoLast
    /\ linked = <<>>
    /\ CodecIdle
    /\ QueryIdle
    /\ ConnIdle
    /\ ConcIdle
    /\ RecvIdle
    /\ CmdIdle

Both(op, arg, r, r2) ==
    /\ mgr' = r.m
    /\ store' = r.st
    /\ store2' = r2.st
    /\ last' = Done(op, arg, r, OkEnv)
    /\ last2' = Done(op, arg, r2, OkEnv)
    /\ UNCHANGED <<linked, codecVars, cmdVars, queryVars, connVars, concVars, recvVars>>

ParityAddThread ==
    \E thread_data \in ThreadDatas :
        /\ ~ServerHas(store, "THREADS", Get(thread_data, S_id, PStr(S_u1)).s)
        /\ Both("add_thread", Get(thread_data, S_id, PStr(S_u1)).s,
                add_thread(mgr, store, thread_data, S_u1, OkEnv),
                add_thread(WebMgr, store2, thread_data, S_u1, OkEnv))

ParityAddEmail ==
    \E email_data \in ParityEmailDatas :
        /\ \A t \in ThreadIds, s \in {store, store2} :
              ServerHas(s, "THREADS", t) =>
                  NumFields(s["THREADS"][t].data) < MaxThreadFields
        /\ Both("add_email", Get(email_data, S_id, PStr(S_u1)).s,
                add_email(mgr, store, email_data, S_u1, OkEnv),
                add_email(WebMgr, store2, email_data, S_u1, OkEnv))

ParityGet ==
    \E file_name \in {"EMAILS", "THREADS"}, id \in ParityIds \cup ThreadIds :
        Both("get", id, get(mgr, store, file_name, id, OkEnv),
             get(WebMgr, store2, file_name, id, OkEnv))

ParityQuery ==
    \E output \in ParityOutputs :
        Both("search", output, query(mgr, store, output, OkEnv),
             query(WebMgr, store2, output, OkEnv))

ParityNext == ParityAddThread \/ ParityAddEmail \/ ParityGet \/ ParityQuery

SpecParity == ParityInit /\ [][ParityNext]_vars

-----------------------------------------------------------------------------
(* Entity runs: add and get for each entity kind, get_user_by_username,    *)
(* both search paths and get_email_attachments, under the same fault       *)
(* environments as the repository runs.                                    *)

MaxStored == 1        \* adds run while fewer records than this are stored outside THREADS

Kinds == {"user", "email", "thread", "attachment"}
FileOf(kind) ==
    CASE kind = "user" -> "USERS"
      [] kind = "email" -> "EMAILS"
      [] kind = "thread" -> "THREADS"
      [] OTHER -> "ATTACHMENTS"
AddOp(kind) ==
    CASE kind = "user" -> "add_user"
      [] kind = "email" -> "add_email"
      [] kind = "thread" -> "add_thread"
      [] OTHER -> "add_attachment"
GetOp(kind) ==
    CASE kind = "user" -> "get_user"
      [] kind = "email" -> "get_email"
      [] kind = "thread" -> "get_thread"
      [] OTHER -> "get_attachment"
KindOf(op) == CHOOSE kind \in Kinds : op \in {AddOp(kind), GetOp(kind)}

S_groups == <<103, 114, 111, 117, 112, 115>>            \* 'groups'

\* what callers pass to add: a record with its id, one without, and one
\* with a field that is a sequence of sub-value sequences
EntityDatas ==
    { <<KV(S_type, PStr(S_a))>>,
      <<KV(S_id, PStr(S_e2)),
        KV(S_groups, PList(<<PList(<<PStr(S_a), PStr(S_b)>>), PStr(S_b)>>))>> }
EntityEmailDatas ==
    EntityDatas \cup
    { <<KV(S_id, PStr(S_e1)), KV(S_thread_id, PStr(S_t1)), KV(S_date_sent, PStr(S_d10))>> }

\* fault environments of the entity runs: no fault, any fault at the first
\* round trip, a send error at a later one, or a refused handshake
EntityEnvs(m) ==
    { [cf |-> "ok", io |-> <<>>] } \cup
    { [cf |-> "ok", io |-> <<f>>] :
          f \in (IF m.use_websvc THEN WebFaults ELSE SockFaults) \ {"ok"} } \cup
    { [cf |-> "ok", io |-> [i \in 1..k |-> IF i = k THEN "send_error" ELSE "ok"]] :
          k \in 2..3 } \cup
    (IF NeedsConnect(m) THEN { [cf |-> "refused", io |-> <<>>] } ELSE {})

NumStored(st) ==
    Cardinality({ x \in (Files \ {"THREADS"}) \X AllIds : st[x[1]][x[2]].present })

\* the add of one entity kind
add(kind, m, st, data, uuid, env) ==
    CASE kind = "user" -> add_user(m, st, data, uuid, env)
      [] kind = "email" -> add_email(m, st, data, uuid, env)
      [] kind = "thread" -> add_thread(m, st, data, uuid, env)
      [] OTHER -> add_attachment(m, st, data, uuid, env)

EntityAdd ==
    /\ NumStored(store) < MaxStored
    /\ \E kind \in {"user", "attachment"}, data \in EntityDatas, env \in EntityEnvs(mgr) :
          Finish(AddOp(kind), Get(data, S_id, PStr(S_u1)).s,
                 add(kind, mgr, store, data, S_u1, env), env)
    /\ UNCHANGED <<linked, codecVars, cmdVars, parityVars, queryVars, connVars, concVars, recvVars>>

\* add_thread for a thread that is not stored yet
EntityAddThread ==
    /\ ~ServerHas(store, "THREADS", S_t1)
    /\ \E data \in BareThreadDatas, env \in EntityEnvs(mgr) :
          Finish("add_thread", Get(data, S_id, PStr(S_u1)).s,
                 add_thread(mgr, store, data, S_u1, env), env)
    /\ UNCHANGED <<linked, codecVars, cmdVars, parityVars, queryVars, connVars, concVars, recvVars>>

EntityAddEmail ==
    /\ NumStored(store) < MaxStored
    /\ ServerHas(store, "THREADS", S_t1) =>
          NumFields(store["THREADS"][S_t1].data) < MaxThreadFields
    /\ \E data \in EntityEmailDatas, env \in EntityEnvs(mgr) :
          Finish("add_email", Get(data, S_id, PStr(S_u1)).s,
                 add_email(mgr, store, data, S_u1, env), env)
    /\ UNCHANGED <<linked, codecVars, cmdVars, parityVars, queryVars, connVars, concVars, recvVars>>

EntityGet ==
    /\ \E kind \in Kinds, id \in {S_t1, S_u1}, env \in EntityEnvs(mgr) :
          Finish(GetOp(kind), id, get(mgr, store, FileOf(kind), id, env), env)
    /\ UNCHANGED <<linked, codecVars, cmdVars, parityVars, queryVars, connVars, concVars, recvVars>>

EntityGetUserByUsername ==
    /\ \E output \in {<<>>, S_u1 \o <<NEWLINE>> \o S_e2}, env \in EntityEnvs(mgr) :
          Finish("get_user_by_username", output,
                 get_user_by_username(mgr, store, output, env), env)
    /\ UNCHANGED <<linked, codecVars, cmdVars, parityVars, queryVars, connVars, concVars, recvVars>>

\* search_emails: query through the phantom program or directly
EntitySearch ==
    /\ \E use_phantom \in BOOLEAN, output \in QueryOutputs, env \in EntityEnvs(mgr) :
          Finish(IF use_phantom THEN "search_phantom" ELSE "search_direct", output,
                 query(mgr, store, output, env), env)
    /\ UNCHANGED <<linked, codecVars, cmdVars, parityVars, queryVars, connVars, concVars, recvVars>>

EntityGetEmailAttachments ==
    /\ \E id \in {S_e1}, env \in EntityEnvs(mgr) :
          Finish("get_email_attachments", id,
                 get_email_attachments(mgr, store, id, env), env)
    /\ UNCHANGED <<linked, codecVars, cmdVars, parityVars, queryVars, connVars, concVars, recvVars>>

EntityNext ==
    \/ EntityAdd \/ EntityAddThread \/ EntityAddEmail \/ EntityGet \/ EntityGetUserByUsername
    \/ EntitySearch \/ EntityGetEmailAttachments

SpecEntity == Init /\ [][EntityNext]_vars

-----------------------------------------------------------------------------
(* Connection runs: a client of qmclient drives one QMConnection object   *)
(* (c = [socket (not None), connected]) and the two select methods.       *)
(* ids are the identifiers the server matched.                            *)

\* the result of a method on the object: the object after it and the value
CR(c, val) == [c |-> c, val |-> val]

\* QMConnection.__init__
QMConnection_init == [socket |-> FALSE, connected |-> FALSE]

\* QMConnection.connect as it would be if it marked the object connected
\* once the credentials are sent, before reading the answer
QMConnection_connect_early(c, fault) ==
    IF fault = "refused" THEN CR([c EXCEPT !.socket = TRUE], PFalse)
    ELSE CR([c EXCEPT !.socket = TRUE, !.connected = TRUE], PBool(fault = "ok"))

\* QMConnection.connect on the object c
QMConnection_connect_self(c, fault) ==
    IF fault \in {"refused", "recv_error"}
    THEN CR([c EXCEPT !.socket = TRUE], PFalse)        \* raised and caught
    ELSE IF StartsWith(IF fault = "ok" THEN S_OK ELSE S_ERROR, S_OK)
    THEN CR([c EXCEPT !.socket = TRUE, !.connected = TRUE], PTrue)
    ELSE CR([c EXCEPT !.socket = TRUE], PFalse)

\* QMConnection.disconnect
QMConnection_disconnect(c) ==
    IF c.socket THEN CR(QMConnection_init, PNone) ELSE CR(c, PNone)

\* OpenQMManager.disconnect as it would be without the finally clause: a
\* transport disconnect that failed leaves the handle in place
OpenQMManager_disconnect_keep(m, fault) ==
    IF ~m.connection THEN m
    ELSE IF fault = "ok" THEN [m EXCEPT !.connection = FALSE, !.connected = FALSE]
    ELSE [m EXCEPT !.connected = FALSE]

\* OpenQMManager.disconnect: with a handle, the transport's disconnect on
\* the object behind it (whose socket is set since its connect), and then
\* connection = None in the finally, whether or not the transport's
\* disconnect failed; without a handle, nothing
OpenQMManager_disconnect(m, fault) ==
    IF m.connection
    THEN [m EXCEPT !.connection = FALSE,
                   !.connected = QMConnection_disconnect([socket |-> TRUE,
                                                          connected |-> m.connected]).c.connected]
    ELSE m

\* qmclient.connect(..., use_websvc = False): the new object, and whether
\* it is returned (True) or None is
qmclient_connect_new(fault) ==
    LET r == QMConnection_connect_self(QMConnection_init, fault)
    IN IF Truthy(r.val) THEN CR(r.c, PTrue) ELSE CR(r.c, PNone)

\* the server's answer to SELECT on the socket
SockSelectReply(ids, fault) ==
    (IF fault = "ok" THEN Join(ids, VALUE_MARK) ELSE S_ERROR) \o <<0>>

PStrs(texts) == PList([j \in 1..Len(texts) |-> PStr(texts[j])])

\* QMConnection.select
QMConnection_select(c, ids, fault) ==
    IF ~c.connected THEN PList(<<>>)
    ELSE IF fault \in {"send_error", "recv_error"} THEN PList(<<>>)
    ELSE LET response == _receive_data(SockSelectReply(ids, fault))
         IN IF StartsWith(response, S_ERROR)
            THEN PList(<<>>)
            ELSE PStrs(Split(Strip(response), VALUE_MARK))

S_ids == <<105, 100, 115>>  \* 'ids'

\* QMWebService.select: response.json().get('ids', []) on status 200
QMWebService_select(ids, fault) ==
    LET w == WebPost(EmptyStore, EmptyStore, fault, Json1(S_ids, PStrs(ids)))
    IN IF w.raised THEN PList(<<>>)
       ELSE IF w.status = 200
       THEN (IF w.json.k = "dict" THEN Get(w.json.l, S_ids, PList(<<>>)) ELSE PList(<<>>))
       ELSE PList(<<>>)

SelectIds == { <<>>, <<S_e1>>, <<S_e2>>, <<S_e1, S_e2>> }

ConnInit ==
    /\ qmc = NewConn
    /\ qmc_ok = FALSE
    /\ sel = NoSel
    /\ mgr = WebMgr
    /\ store = EmptyStore
    /\ last = NoLast
    /\ linked = <<>>
    /\ CodecIdle
    /\ CmdIdle
    /\ ParityIdle
    /\ QueryIdle
    /\ ConcIdle
    /\ RecvIdle

Called(op, ids, fault, val) ==
    [op |-> op, ids |-> ids, fault |-> fault, val |-> val, was |-> qmc.connected]

ConnRest ==
    UNCHANGED <<mgr, store, last, linked, codecVars, cmdVars, parityVars, queryVars,
                concVars, recvVars>>

\* conn = QMConnection(...)
ConnCreate ==
    /\ sel.op # "init"
    /\ qmc' = QMConnection_init
    /\ qmc_ok' = FALSE
    /\ sel' = Called("init", <<>>, "ok", PNone)
    /\ ConnRest

\* conn.connect()
ConnConnect ==
    /\ \E fault \in ConnFaults :
          LET r == QMConnection_connect_self(qmc, fault)
          IN /\ qmc' = r.c
             /\ qmc_ok' = (qmc_ok \/ fault = "ok")
             /\ sel' = Called("connect", <<>>, fault, r.val)
    /\ ConnRest

\* conn = qmclient.connect(...)
ConnOpen ==
    /\ \E fault \in ConnFaults :
          LET r == qmclient_connect_new(fault)
          IN /\ qmc' = r.c
             /\ qmc_ok' = (fault = "ok")
             /\ sel' = [Called("qmclient_connect", <<>>, fault, r.val) EXCEPT !.was = FALSE]
    /\ ConnRest

\* conn.disconnect()
ConnDisconnect ==
    /\ qmc' = QMConnection_disconnect(qmc).c
    /\ qmc_ok' = FALSE
    /\ sel' = Called("disconnect", <<>>, "ok", PNone)
    /\ ConnRest

\* conn.select(file_name, query) on the socket
ConnSelect ==
    /\ \E ids \in SelectIds, fault \in SockFaults :
          sel' = Called("select", ids, fault, QMConnection_select(qmc, ids, fault))
    /\ UNCHANGED <<qmc, qmc_ok>>
    /\ ConnRest

\* svc.select(file_name, query) on the web service
WebSelect ==
    /\ \E ids \in SelectIds, fault \in WebFaults :
          sel' = [Called("websvc_select", ids, fault, QMWebService_select(ids, fault))
                    EXCEPT !.was = FALSE]
    /\ UNCHANGED <<qmc, qmc_ok>>
    /\ ConnRest

ConnNext ==
    \/ ConnCreate
    \/ ConnConnect
    \/ ConnOpen
    \/ ConnDisconnect
    \/ ConnSelect
    \/ WebSelect

SpecConn == ConnInit /\ [][ConnNext]_vars

-----------------------------------------------------------------------------
(* Concurrent runs: two callers, each with its own manager on the web     *)
(* service, run add_email at the same time.  A step is one request of the *)
(* call together with the statements that follow it up to the next        *)
(* request; the server handles one request at a time.  procs[p] holds the *)
(* caller's place in add_email, its email_data and the thread it read;    *)
(* cbase is the store when the two calls began.                           *)

Procs == {1, 2}

\* the email each caller adds: its own id, thread t1, some date
ConcDatas(p) ==
    { <<KV(S_id, PStr(IF p = 1 THEN S_e1 ELSE S_e2)), KV(S_thread_id, PStr(S_t1)),
        KV(S_date_sent, PStr(d))>> : d \in Dates }

\* the stores the calls start from: no thread, or thread t1 with two emails
ConcThread == <<KV(S_id, PStr(S_t1)), KV(S_emails, PList(<<PStr(S_a), PStr(S_b)>>))>>
ConcBases ==
    { EmptyStore, add_thread(WebMgr, EmptyStore, ConcThread, <<>>, OkEnv).st }

ConcInit ==
    /\ procs = [p \in Procs |-> NoProc]
    /\ cbase \in ConcBases
    /\ store = cbase
    /\ mgr = WebMgr
    /\ last = NoLast
    /\ linked = <<>>
    /\ CodecIdle
    /\ CmdIdle
    /\ ParityIdle
    /\ QueryIdle
    /\ ConnIdle
    /\ RecvIdle

ConcRest ==
    UNCHANGED <<mgr, last, linked, codecVars, cmdVars, parityVars, queryVars, connVars,
                recvVars>>

Returned(p, val) == [procs EXCEPT ![p].pc = "done", ![p].val = val]

\* add_email up to the answer of its EMAILS write, openqm_manager.py:527-532
ConcWriteEmail(p) ==
    /\ procs[p].pc = "idle"
    /\ \E data \in ConcDatas(p) :
          LET w1 == write_record(WebMgr, store, "EMAILS", Get(data, S_id, PNone).s, data,
                                 E1(OkEnv, 1))
          IN /\ store' = w1.st
             /\ procs' =
                  IF ~Truthy(w1.val)
                  THEN [procs EXCEPT ![p] = [pc |-> "done", data |-> data,
                                             thread |-> PNone, val |-> PStr(<<>>)]]
                  ELSE IF ~Truthy(Get(data, S_thread_id, PNone))
                  THEN [procs EXCEPT ![p] = [pc |-> "done", data |-> data,
                                             thread |-> PNone,
                                             val |-> Get(data, S_id, PNone)]]
                  ELSE [procs EXCEPT ![p] = [pc |-> "read_thread", data |-> data,
                                             thread |-> PNone, val |-> PNone]]
    /\ UNCHANGED cbase
    /\ ConcRest

\* the thread read and the update of the copy read, openqm_manager.py:533-548
ConcLinked(p, thread) ==
    LinkedThread(thread, Get(thread, S_emails, PList(<<>>)), Get(procs[p].data, S_id, PNone),
                 procs[p].data)

ConcReadThread(p) ==
    /\ procs[p].pc = "read_thread"
    /\ LET r2 == read_record(WebMgr, store, "THREADS",
                             Get(procs[p].data, S_thread_id, PNone).s, E1(OkEnv, 2))
           email_id == Get(procs[p].data, S_id, PNone)
       IN procs' =
            IF ~Truthy(r2.val) THEN Returned(p, email_id)
            ELSE IF InRaises(Get(r2.val.l, S_emails, PList(<<>>)))
                    \/ (~In(email_id, Get(r2.val.l, S_emails, PList(<<>>)))
                        /\ ConcLinked(p, r2.val.l).exc)
            THEN Returned(p, PNone)                            \* the call raised
            ELSE IF In(email_id, Get(r2.val.l, S_emails, PList(<<>>)))
            THEN Returned(p, email_id)
            ELSE [procs EXCEPT ![p].pc = "write_thread",
                               ![p].thread = PDict(ConcLinked(p, r2.val.l).thread)]
    /\ UNCHANGED <<store, cbase>>
    /\ ConcRest

\* the write of the updated copy and the return, openqm_manager.py:550-553
ConcWriteThread(p) ==
    /\ procs[p].pc = "write_thread"
    /\ store' = write_record(WebMgr, store, "THREADS",
                             Get(procs[p].data, S_thread_id, PNone).s, procs[p].thread.l,
                             E1(OkEnv, 3)).st
    /\ procs' = Returned(p, Get(procs[p].data, S_id, PNone))
    /\ UNCHANGED cbase
    /\ ConcRest

\* both calls returned; the callers go on to a next pair of calls
ConcAgain ==
    /\ \A p \in Procs : procs[p].pc = "done"
    /\ ServerHas(store, "THREADS", S_t1) =>
          NumFields(store["THREADS"][S_t1].data) < MaxThreadFields
    /\ procs' = [p \in Procs |-> NoProc]
    /\ cbase' = store
    /\ UNCHANGED store
    /\ ConcRest

ConcNext ==
    \/ \E p \in Procs : ConcWriteEmail(p)
    \/ \E p \in Procs : ConcReadThread(p)
    \/ \E p \in Procs : ConcWriteThread(p)
    \/ ConcAgain

SpecConc == ConcInit /\ [][ConcNext]_vars

-----------------------------------------------------------------------------
(* Query runs: a caller fills a filter mapping key by key; after each      *)
(* insertion both search methods build their query from it.                *)

MaxFilters == 3       \* a filter mapping holds at most this many filters

FilterKeys == {S_account_id, S_thread_id, S_subject, S_start_date}
FilterValues == { PStr(S_a), PList(<<PStr(S_a), PStr(S_b)>>) }

QueryInit ==
    /\ filters = <<>>
    /\ qtext = NoQueries
    /\ mgr = WebMgr
    /\ store = EmptyStore
    /\ last = NoLast
    /\ linked = <<>>
    /\ CodecIdle
    /\ CmdIdle
    /\ ParityIdle
    /\ ConnIdle
    /\ ConcIdle
    /\ RecvIdle

\* filters[key] = value for a new key, then search_emails and search_threads
QueryInsert ==
    /\ Len(filters) < MaxFilters
    /\ \E key \in FilterKeys, value \in FilterValues :
          /\ ~HasKey(filters, key)
          /\ filters' = Append(filters, KV(key, value))
          /\ qtext' = [emails |-> search_emails_query(Append(filters, KV(key, value))),
                       threads |-> search_threads_query(Append(filters, KV(key, value)))]
    /\ UNCHANGED <<mgr, store, last, linked, codecVars, cmdVars, parityVars, connVars,
                   concVars, recvVars>>

\* the caller starts over with an empty mapping
QueryClear ==
    /\ filters # <<>>
    /\ filters' = <<>>
    /\ qtext' = [emails |-> search_emails_query(<<>>),
                 threads |-> search_threads_query(<<>>)]
    /\ UNCHANGED <<mgr, store, last, linked, codecVars, cmdVars, parityVars, connVars,
                   concVars, recvVars>>

QueryNext == QueryInsert \/ QueryClear

SpecQuery == QueryInit /\ [][QueryNext]_vars

-----------------------------------------------------------------------------
(* Decoder runs: a caller hands any value to one of the two decoders.     *)
(* wire is the value handed over, last what the call gave.                *)

\* the body of parse_record's try: record_data.split raises on anything
\* but a str; on a str the loop runs to its return
parse_record_try(record_data) ==
    IF record_data.k # "str" THEN [val |-> PNone, exc |-> TRUE]
    ELSE [val |-> PDict(parse_record(record_data)), exc |-> FALSE]

\* parse_record as it would be without its except clause
parse_record_uncaught(record_data) == parse_record_try(record_data)

\* parse_record as a call: try ... except Exception: return {}
parse_record_call(record_data) == Catch(parse_record_try(record_data), PDict(EmptyDict))

\* the same for OpenQMManager._parse_record
_parse_record_try(record_data) ==
    IF record_data.k # "str" THEN [val |-> PNone, exc |-> TRUE]
    ELSE [val |-> PDict(_parse_record(record_data)), exc |-> FALSE]

_parse_record_call(record_data) == Catch(_parse_record_try(record_data), PDict(EmptyDict))

\* values that are not a str: None, True, a list, a dict, bytes, an int
NotStrs ==
    { PNone, PTrue, PList(<<PStr(S_a)>>), PDict(<<KV(S_id, PStr(S_a))>>),
      [k |-> "bytes", s |-> S_a, l |-> <<>>], [k |-> "int", s |-> <<49>>, l |-> <<>>] }

\* wire strings of one and of two fields
DecodeTexts == RichTexts \cup { t \o <<FIELD_MARK>> \o u : t, u \in RichTexts }

DecodeInputs == { PStr(t) : t \in DecodeTexts } \cup NotStrs

DecodeInit ==
    /\ CodecIdle
    /\ mgr = WebMgr
    /\ store = EmptyStore
    /\ last = NoLast
    /\ linked = <<>>
    /\ CmdIdle
    /\ ParityIdle
    /\ QueryIdle
    /\ ConnIdle
    /\ ConcIdle
    /\ RecvIdle

Decoded(op, r) == [NoLast EXCEPT !.op = op, !.val = r.val, !.exc = r.exc]

DecodeRest ==
    UNCHANGED <<rec, rt_rec, rt_wire, mgr, store, linked, cmdVars, parityVars, queryVars,
                connVars, concVars, recvVars>>

\* qmclient.parse_record(x)
DecodeParseRecord ==
    /\ \E x \in DecodeInputs :
          /\ wire' = x
          /\ last' = Decoded("parse_record", parse_record_call(x))
    /\ DecodeRest

\* manager._parse_record(x)
DecodeManagerParse ==
    /\ \E x \in DecodeInputs :
          /\ wire' = x
          /\ last' = Decoded("_parse_record", _parse_record_call(x))
    /\ DecodeRest

DecodeNext == DecodeParseRecord \/ DecodeManagerParse

SpecDecode == DecodeInit /\ [][DecodeNext]_vars

-----------------------------------------------------------------------------
(* Receive runs: QMConnection.read calls on one socket, the answers       *)
(* arriving as the network cuts them.  rx.pending are the bytes the server *)
(* sent that no recv returned yet, rx.own the answer to the command of    *)
(* the call in progress, rx.chunks what its recv calls returned, rx.raw   *)
(* what _receive_data gave and rx.val what read returned.                 *)

RecvSize == 3         \* bytes a recv returns at most: the 4096 of recv(4096), scaled
MaxCalls == 2         \* read calls of a run

\* text.encode('utf-8') for code points below 2048
Utf8Encode(text) ==
    LET RECURSIVE F(_)
        F(i) == IF i > Len(text) THEN <<>>
                ELSE (IF text[i] < 128 THEN <<text[i]>>
                      ELSE <<192 + (text[i] \div 64), 128 + (text[i] % 64)>>) \o F(i + 1)
    IN F(1)

\* bytes.decode('utf-8') over one and two byte sequences: the text, or exc
\* (UnicodeDecodeError) on a lead byte without its continuation byte
Utf8Decode(bytes) ==
    LET RECURSIVE F(_, _)
        F(i, acc) ==
            IF i > Len(bytes) THEN [val |-> acc, exc |-> FALSE]
            ELSE IF bytes[i] < 128 THEN F(i + 1, Append(acc, bytes[i]))
            ELSE IF bytes[i] \in 194..223 /\ i < Len(bytes) /\ bytes[i + 1] \in 128..191
            THEN F(i + 2, Append(acc, (bytes[i] - 192) * 64 + (bytes[i + 1] - 128)))
            ELSE [val |-> <<>>, exc |-> TRUE]
    IN F(1, <<>>)

\* buffer after `buffer += chunk` for every chunk
Buffer(chunks) ==
    LET RECURSIVE F(_)
        F(i) == IF i > Len(chunks) THEN <<>> ELSE chunks[i] \o F(i + 1)
    IN F(1)

\* the loop as it would be if it stopped only on an empty chunk or a null byte
RecvStops_on_terminator(chunk) == chunk = <<>> \/ chunk[Len(chunk)] = 0

\* the loop's two break tests on the chunk a recv returned
RecvStops(chunk) ==
    \/ chunk = <<>>
    \/ chunk[Len(chunk)] = 0 \/ Len(chunk) < RecvSize

\* return buffer.decode('utf-8').rstrip('\0')
ReceiveReturn(chunks) ==
    IF Utf8Decode(Buffer(chunks)).exc THEN [val |-> <<>>, exc |-> TRUE]
    ELSE [val |-> RStripNul(Utf8Decode(Buffer(chunks)).val), exc |-> FALSE]

\* QMConnection.read after _receive_data gave raw
ReadReturn(raw) ==
    IF raw.exc THEN PStr(<<>>)
    ELSE IF StartsWith(raw.val, S_ERROR) THEN PStr(<<>>)
    ELSE PStr(raw.val)

\* the records the server answers a READ with
Responses == { <<97>>, <<97, FIELD_MARK>>, <<97, FIELD_MARK, 98>> }

RecvInit ==
    /\ rx = NoRx
    /\ mgr = SockMgr
    /\ store = EmptyStore
    /\ last = NoLast
    /\ linked = <<>>
    /\ CodecIdle
    /\ CmdIdle
    /\ ParityIdle
    /\ QueryIdle
    /\ ConnIdle
    /\ ConcIdle

RecvRest ==
    UNCHANGED <<mgr, store, last, linked, codecVars, cmdVars, parityVars, queryVars,
                connVars, concVars>>

\* read sends its command; the server answers with a record and a null byte
RecvCall ==
    /\ rx.pc = "idle" /\ ~rx.closed /\ rx.calls < MaxCalls
    /\ \E response \in Responses :
          rx' = [rx EXCEPT !.pending = @ \o Utf8Encode(response) \o <<0>>,
                           !.pc = "recv", !.calls = @ + 1, !.own = response,
                           !.chunks = <<>>, !.raw = NoRx.raw, !.val = PNone]
    /\ RecvRest

\* one pass of the loop with the chunk recv returned, n bytes taken from pending
RecvTake(chunk, n) ==
    IF RecvStops(chunk)
    THEN rx' = [rx EXCEPT !.pending = SubSeq(@, n + 1, Len(@)),
                          !.chunks = Append(@, chunk), !.pc = "idle",
                          !.raw = ReceiveReturn(Append(rx.chunks, chunk)),
                          !.val = ReadReturn(ReceiveReturn(Append(rx.chunks, chunk)))]
    ELSE rx' = [rx EXCEPT !.pending = SubSeq(@, n + 1, Len(@)),
                          !.chunks = Append(@, chunk)]

\* recv(4096) returns some of the bytes that arrived, at most RecvSize
RecvChunk ==
    /\ rx.pc = "recv" /\ rx.pending # <<>>
    /\ \E n \in 1..RecvSize :
          /\ n <= Len(rx.pending)
          /\ RecvTake(SubSeq(rx.pending, 1, n), n)
    /\ RecvRest

\* the server closes the connection; what it had not sent yet never comes
RecvClose ==
    /\ ~rx.closed
    /\ rx' = [rx EXCEPT !.closed = TRUE, !.pending = <<>>]
    /\ RecvRest

\* recv on the closed connection returns b''
RecvEmpty ==
    /\ rx.pc = "recv" /\ rx.pending = <<>> /\ rx.closed
    /\ RecvTake(<<>>, 0)
    /\ RecvRest

RecvNext == RecvCall \/ RecvChunk \/ RecvClose \/ RecvEmpty

SpecRecv == RecvInit /\ [][RecvNext]_vars

-----------------------------------------------------------------------------
(* Rewrite runs: the server holds a record another client stored; a       *)
(* caller reads it and writes the decoded record back as it is.           *)

\* stored wire strings of one to three fields
RewriteTexts ==
    DecodeTexts \cup { t \o <<FIELD_MARK>> \o u \o <<FIELD_MARK>> \o v : t, u, v \in RichTexts }

RewriteRest ==
    UNCHANGED <<linked, codecVars, cmdVars, parityVars, queryVars, connVars, concVars,
                recvVars>>

\* another client stores w under USERS u1
RewriteStore ==
    /\ \E w \in RewriteTexts \ {<<>>} :
          /\ store' = ServerPut(EmptyStore, "USERS", S_u1, w)
          /\ last' = [NoLast EXCEPT !.op = "stored", !.arg = w]
    /\ UNCHANGED mgr
    /\ RewriteRest

\* read_record, then write_record of the record read
Rewritten(r, w) ==
    RS(w.m, w.st, w.val, w.exc, r.att + w.att, r.trips + w.trips, <<r.val, w.val>>)

\* record = read_record("USERS", "u1"); if record: write_record("USERS", "u1", record)
RewriteRecord ==
    /\ last.op = "stored"
    /\ LET r == read_record(mgr, store, "USERS", S_u1, E1(OkEnv, 1))
       IN /\ Truthy(r.val)
          /\ Finish("rewrite", last.arg,
                    Rewritten(r, write_record(r.m, r.st, "USERS", S_u1, r.val.l,
                                              E1(OkEnv, 2))), OkEnv)
    /\ RewriteRest

RewriteNext == RewriteStore \/ RewriteRecord

SpecRewrite == Init /\ [][RewriteNext]_vars

-----------------------------------------------------------------------------
(* Attachment runs: attachments are added under the identifiers u1 and    *)
(* e2, an email e1 is added that names them, and its attachments are      *)
(* asked for.                                                             *)

AttachmentDatas == { <<KV(S_id, PStr(a)), KV(S_type, PStr(S_a))>> : a \in {S_u1, S_e2} }

\* the emails of these runs: e1 with one or two attachment identifiers
AttachEmailDatas ==
    { <<KV(S_id, PStr(S_e1)), KV(S_attachment_ids, PList(ids))>> :
          ids \in { <<PStr(S_u1)>>, <<PStr(S_u1), PStr(S_e2)>>, <<PStr(S_e2), PStr(S_u1)>> } }

AttachRest ==
    UNCHANGED <<linked, codecVars, cmdVars, parityVars, queryVars, connVars, concVars,
                recvVars>>

AttachAddAttachment ==
    /\ \E data \in AttachmentDatas, env \in EntityEnvs(mgr) :
          /\ ~ServerHas(store, "ATTACHMENTS", Get(data, S_id, PNone).s)
          /\ Finish("add_attachment", Get(data, S_id, PNone).s,
                    add_attachment(mgr, store, data, S_u1, env), env)
    /\ AttachRest

AttachAddEmail ==
    /\ ~ServerHas(store, "EMAILS", S_e1)
    /\ \E data \in AttachEmailDatas, env \in EntityEnvs(mgr) :
          Finish("add_email", S_e1, add_email(mgr, store, data, S_u1, env), env)
    /\ AttachRest

AttachGet ==
    /\ \E env \in EntityEnvs(mgr) :
          Finish("get_email_attachments", S_e1,
                 get_email_attachments(mgr, store, S_e1, env), env)
    /\ AttachRest

AttachNext == AttachAddAttachment \/ AttachAddEmail \/ AttachGet

SpecAttach == Init /\ [][AttachNext]_vars

-----------------------------------------------------------------------------
(* Thread search runs: threads and emails are added under caller-chosen   *)
(* identifiers (the two files are separate name spaces, so a thread and   *)
(* an email may carry the same one) and threads are searched.  output is  *)
(* what the server prints for the thread query: identifiers of stored     *)
(* threads, one per line.                                                 *)

\* search_threads hands its query text to query and returns what query gives
search_threads(m, st, output, env) == query(m, st, output, env)

SearchIds == {S_t1, S_e1}

SearchThreadDatas ==
    { <<KV(S_id, PStr(t)), KV(S_type, PStr(S_thread))>> : t \in SearchIds }
SearchEmailDatas ==
    { <<KV(S_id, PStr(e)), KV(S_date_sent, PStr(S_d10))>> : e \in SearchIds }

\* what the server prints when it matched the threads in ids
Printed(ids) ==
    LET RECURSIVE F(_)
        F(i) == IF i > Len(ids) THEN <<>> ELSE ids[i] \o <<NEWLINE>> \o F(i + 1)
    IN F(1)

\* the outputs the server can give: any selection of the stored threads
ThreadOutputs(st) ==
    { Printed(SelectSeq(<<S_t1, S_e1>>, LAMBDA t : t \in sub)) :
          sub \in SUBSET { t \in SearchIds : ServerHas(st, "THREADS", t) } }

SearchRest ==
    UNCHANGED <<linked, codecVars, cmdVars, parityVars, queryVars, connVars, concVars,
                recvVars>>

SearchAddThread ==
    /\ \E data \in SearchThreadDatas, env \in EntityEnvs(mgr) :
          /\ ~ServerHas(store, "THREADS", Get(data, S_id, PNone).s)
          /\ Finish("add_thread", Get(data, S_id, PNone).s,
                    add_thread(mgr, store, data, S_u1, env), env)
    /\ SearchRest

SearchAddEmail ==
    /\ \E data \in SearchEmailDatas, env \in EntityEnvs(mgr) :
          /\ ~ServerHas(store, "EMAILS", Get(data, S_id, PNone).s)
          /\ Finish("add_email", Get(data, S_id, PNone).s,
                    add_email(mgr, store, data, S_u1, env), env)
    /\ SearchRest

SearchThreads ==
    /\ \E output \in ThreadOutputs(store), env \in EntityEnvs(mgr) :
          Finish("search_threads", output, search_threads(mgr, store, output, env), env)
    /\ SearchRest

SearchNext == SearchAddThread \/ SearchAddEmail \/ SearchThreads

SpecSearch == Init /\ [][SearchNext]_vars

-----------------------------------------------------------------------------
(* Add-then-get runs: users and attachments are added under identifiers   *)
(* of every shape, some beginning with ERROR or OK, and read back, with   *)
(* no fault anywhere.                                                     *)

AddGetIds == {S_u1} \cup OddIds
AddGetKinds == {"user", "attachment"}

AddGetRest ==
    UNCHANGED <<linked, codecVars, cmdVars, parityVars, queryVars, connVars, concVars,
                recvVars>>

AddGetAdd ==
    /\ \E kind \in AddGetKinds, id \in AddGetIds :
          /\ ~ServerHas(store, FileOf(kind), id)
          /\ Finish(AddOp(kind), id,
                    add(kind, mgr, store, <<KV(S_id, PStr(id)), KV(S_type, PStr(S_a))>>,
                        S_u1, OkEnv), OkEnv)
    /\ AddGetRest

AddGetGet ==
    /\ \E kind \in AddGetKinds, id \in AddGetIds :
          Finish(GetOp(kind), id, get(mgr, store, FileOf(kind), id, OkEnv), OkEnv)
    /\ AddGetRest

AddGetNext == AddGetAdd \/ AddGetGet

SpecAddGet == Init /\ [][AddGetNext]_vars

-----------------------------------------------------------------------------
(* Session runs: records are added and read, and the manager is           *)
(* disconnected in between; the only fault is a refused handshake or a    *)
(* LOGOUT that cannot be sent, so a connection is lost only by            *)
(* disconnect.                                                            *)

SessionEnvs(m) ==
    {OkEnv} \cup (IF NeedsConnect(m) THEN { [cf |-> "refused", io |-> <<>>] } ELSE {})

SessionRest ==
    UNCHANGED <<linked, codecVars, cmdVars, parityVars, queryVars, connVars, concVars,
                recvVars>>

SessionAdd ==
    /\ \E kind \in AddGetKinds, id \in AddGetIds, env \in SessionEnvs(mgr) :
          /\ ~ServerHas(store, FileOf(kind), id)
          /\ Finish(AddOp(kind), id,
                    add(kind, mgr, store, <<KV(S_id, PStr(id)), KV(S_type, PStr(S_a))>>,
                        S_u1, env), env)
    /\ SessionRest

SessionGet ==
    /\ \E kind \in AddGetKinds, id \in AddGetIds, env \in SessionEnvs(mgr) :
          Finish(GetOp(kind), id, get(mgr, store, FileOf(kind), id, env), env)
    /\ SessionRest

\* disconnect(); env.io tells whether the transport could send its LOGOUT
SessionDisconnect ==
    /\ \E env \in { [cf |-> "ok", io |-> io] : io \in {<<>>, <<"send_error">>} } :
          Finish("disconnect", <<>>,
                 RS(OpenQMManager_disconnect(mgr, IF env.io = <<>> THEN "ok" ELSE env.io[1]),
                    store, PNone, FALSE, 0, 0, <<>>), env)
    /\ SessionRest

SessionNext == SessionAdd \/ SessionGet \/ SessionDisconnect

SpecSession == Init /\ [][SessionNext]_vars

-----------------------------------------------------------------------------
(* Properties *)

\* every value of every field of a wire string, in order
StoredValues(w) ==
    LET fields == Split(w, FIELD_MARK)
        RECURSIVE F(_, _)
        F(i, acc) == IF i > Len(fields) THEN acc
                     ELSE F(i + 1, acc \o Split(fields[i], VALUE_MARK))
    IN F(1, <<>>)

Occurrences(x, w) == Cardinality({ i \in 1..Len(StoredValues(w)) : StoredValues(w)[i] = x })

\* the thread as a later read_record decodes it
ThreadView(t) == _parse_record(PStr(store["THREADS"][t].data))

\* the linked entries of thread t, and their dates
LinkedTo(t) == SelectSeq(linked, LAMBDA x : x.thread = t)
LinkedDateSet(t) == { LinkedTo(t)[i].date.s : i \in 1..Len(LinkedTo(t)) }
MinDate(ds) == CHOOSE d \in ds : \A e \in ds : d = e \/ StrLess(d, e)
MaxDate(ds) == CHOOSE d \in ds : \A e \in ds : d = e \/ StrLess(e, d)

\* C1: an email identifier added to an existing thread, however often, is
\* stored at most once in the thread's record.
C1_IdempotentLinkage ==
    \A t \in ThreadIds, e \in EmailIds :
        ServerHas(store, "THREADS", t) => Occurrences(e, store["THREADS"][t].data) <= 1

\* C2: once emails with distinct sent dates were added to a thread, the
\* stored thread's date_started is their minimum and its last_date their
\* maximum.
C2_DateRangeWidening ==
    \A t \in ThreadIds :
        (/\ LinkedTo(t) # <<>>
         /\ \A i \in 1..Len(LinkedTo(t)) : LinkedTo(t)[i].date.k = "str"
         /\ Cardinality(LinkedDateSet(t)) = Len(LinkedTo(t)))
        => /\ Get(ThreadView(t), S_date_started, PNone) = PStr(MinDate(LinkedDateSet(t)))
           /\ Get(ThreadView(t), S_last_date, PNone) = PStr(MaxDate(LinkedDateSet(t)))

\* C3: after add_email wrote an existing thread, the thread read back holds
\* the email's identifier in the list add_email tests for membership,
\* thread.get('emails', []).
C3_ThreadLinkage ==
    \A i \in 1..Len(linked) :
        In(PStr(linked[i].email), Get(ThreadView(linked[i].thread), S_emails, PList(<<>>)))

\* C4: parse_record(format_record(r)) is r, field for field and in field
\* order, for every record r without delimiter characters.
C4_RecordRoundTrip == (wire.k = "none" /\ rec # <<>>) => rt_rec = rec

\* a wire string without its trailing empty fields
StripTrailingFields(w) ==
    LET RECURSIVE F(_)
        F(n) == IF n > 0 /\ w[n] = FIELD_MARK THEN F(n - 1) ELSE SubSeq(w, 1, n)
    IN F(Len(w))

\* C5: format_record(parse_record(w)) is w byte for byte, up to trailing
\* empty fields, for every wire string w.
C5_WireRoundTrip ==
    wire.k = "str" => StripTrailingFields(rt_wire) = StripTrailingFields(wire.s)

\* C6: when the primary EMAILS write of add_email succeeded, add_email
\* returns the email identifier, raises nothing, and the email is stored
\* under it, whatever the thread read and the thread write did.
C6_BestEffortSecondaryWrite ==
    (last.op = "add_email" /\ Truthy(last.steps[1]))
    => /\ ~last.exc
       /\ last.val = PStr(last.arg)
       /\ ServerHas(store, "EMAILS", last.arg)
       /\ Get(_parse_record(PStr(store["EMAILS"][last.arg].data)), S_id, PNone)
          = PStr(last.arg)

\* an add_email whose primary write succeeded and whose thread write
\* returned False, or whose thread read found nothing under a fault
C6_Witness ==
    /\ last.op = "add_email" /\ Truthy(last.steps[1])
    /\ last.fault_at = 3 /\ Len(last.steps) = 3 /\ ~Truthy(last.steps[3])
    /\ last.val = PStr(last.arg)

\* C7: the socket manager and the web service manager, given the same
\* calls on the same store contents, return the same thing call by call.
C7_TransportParity == last.val = last2.val /\ last.exc = last2.exc

\* C8: a command that hit an I/O failure on an established connection
\* leaves the connection Disconnected, and the command after it makes
\* exactly one connect attempt.
C8_ReconnectAfterDrop ==
    /\ (cpc = "done" /\ cres.iofail) => ~(mgr.connection /\ mgr.connected)
    /\ (cpc = "done" /\ cres.prevdrop) => cres.att = 1

\* C9: a transport-level command makes at most one connect attempt,
\* returns its failure sentinel without raising when that attempt fails,
\* and always returns.
C9_AtMostOneConnectAttempt ==
    /\ [](cres.att <= 1)
    /\ []((cpc = "done" /\ cres.connfail)
          => (cres.val = Sentinel(ccall.kind) /\ ~cres.exc))
    /\ ((cpc = "enter") ~> (cpc = "done"))

\* a command that tried to connect once, failed, and returned
C9_Witness == cpc = "done" /\ cres.connfail /\ cres.att = 1 /\ ccall.kind = "read"

\* the sentinel values, and the one each operation returns
IsSentinel(v) == v \in {PList(<<>>), PFalse, PNone, PStr(<<>>)}
OpSentinel(op) ==
    CASE op \in {"add_thread", "add_email"} -> PStr(<<>>)
      [] op = "get" -> PNone
      [] OTHER -> PList(<<>>)

\* the operation made the handshake, or the round trip, that carried the fault
FaultHit ==
    \/ last.cf_fault /\ last.att >= 1
    \/ last.fault_at \in 1..Len(last.steps)

\* C10 as claimed: an operation hit by a transport failure at any of its
\* steps raises nothing and returns a sentinel value.
C10_FailuresReturnSentinel ==
    FaultHit => (~last.exc /\ IsSentinel(last.val))

\* C10 as amended: no operation raises; a failure of its handshake or of
\* its first round trip makes it return its sentinel; a failure of a later
\* round trip of add_email leaves the returned identifier as it is, and
\* one in a search or attachment lookup still gives a list.
C10_FailuresNeverPropagate ==
    /\ ~last.exc
    /\ ((last.cf_fault /\ last.att >= 1) \/ last.fault_at = 1)
       => last.val = OpSentinel(last.op)
    /\ (last.op = "add_email" /\ last.fault_at \in 2..Len(last.steps))
       => last.val = PStr(last.arg)
    /\ (last.op \in {"search", "get_email_attachments"}) => last.val.k = "list"

\* an add_email whose first round trip failed and that returned ''
C10_Witness ==
    /\ last.op = "add_email" /\ last.fault_at = 1 /\ Len(last.steps) = 1
    /\ last.val = PStr(<<>>) /\ ~last.exc

AddOps == { AddOp(kind) : kind \in Kinds }
GetOps == { GetOp(kind) : kind \in Kinds }
SearchOps == {"search_phantom", "search_direct"}

\* C11: each add returns the record's identifier (the caller's, or the
\* generated one) exactly when its write succeeded and '' otherwise, and
\* the record stored under that identifier has it as field 0.
C11_AddResult ==
    last.op \in AddOps =>
        IF Truthy(last.steps[1])
        THEN /\ last.val = PStr(last.arg)
             /\ ServerHas(store, FileOf(KindOf(last.op)), last.arg)
             /\ Split(store[FileOf(KindOf(last.op))][last.arg].data, FIELD_MARK)[1]
                = last.arg
        ELSE last.val = PStr(<<>>)

\* C12: a get for an identifier under which the entity's file stores no
\* record returns None, whatever the transport and the fault.
C12_GetAbsent ==
    (last.op \in GetOps /\ ~ServerHas(store, FileOf(KindOf(last.op)), last.arg))
    => (last.val = PNone /\ ~last.exc)

\* a get of an absent user that made its round trip
C12_Witness ==
    /\ last.op = "get_user" /\ ~ServerHas(store, "USERS", last.arg)
    /\ last.trips = 1 /\ last.fault_at = 0 /\ last.val = PNone

NoEmails(st) == \A id \in AllIds : ~st["EMAILS"][id].present

\* C13: a search on either path returns [] when EMAILS is empty, and also
\* when the server prints no identifier on a store that is not empty.
C13_EmptySearch ==
    (last.op \in SearchOps /\ (NoEmails(store) \/ last.arg = <<>>))
    => (last.val = PList(<<>>) /\ ~last.exc)

\* a search through the phantom program against an empty EMAILS file
C13_Witness ==
    /\ last.op = "search_phantom" /\ NoEmails(store)
    /\ last.trips >= 1 /\ last.fault_at = 0 /\ last.val = PList(<<>>)

\* the number of identifiers the server printed
MatchedIds(output) ==
    IF output = <<>> THEN 0 ELSE Len(Split(Strip(output), NEWLINE))

\* C19 as claimed: every operation but search makes at most one round
\* trip, and a search that matches N identifiers at most 1 + N.
C19_RoundTripBudget ==
    /\ last.op \in AddOps \cup GetOps \cup {"get_user_by_username"} => last.trips <= 1
    /\ last.op \in SearchOps => last.trips <= 1 + MatchedIds(last.arg)

\* the number of lines of the text execute_command returned
ResponseLines(v) ==
    IF ~Truthy(v) THEN 0 ELSE Len(Split(Strip(v.s), NEWLINE))

\* C19 as amended: one round trip for a get and for the add of a user,
\* thread or attachment; at most three for add_email; at most two for
\* get_user_by_username; at most 1 + N for a search whose command
\* response has N lines.
C19_RoundTripBudgetByOperation ==
    /\ last.op \in (AddOps \ {"add_email"}) \cup GetOps => last.trips <= 1
    /\ last.op = "add_email" => last.trips <= 3
    /\ last.op = "get_user_by_username" => last.trips <= 2
    /\ last.op \in SearchOps => last.trips <= 1 + ResponseLines(last.steps[1])

\* an add_email that wrote the email, read its thread and wrote it back
C19_Witness ==
    /\ last.op = "add_email" /\ last.trips = 3 /\ last.fault_at = 0
    /\ last.val = PStr(last.arg)

\* the filters of a mapping that search_emails recognizes
EmailFilterKeys ==
    {S_account_id, S_thread_id, S_from_address, S_to_address, S_subject, S_start_date,
     S_end_date}

\* the comparison search_emails emits for one filter
EmailClause(e) == EmailQueryParts(<<e>>)[1]

\* the order of search_emails' if statements
EmailKeyOrder ==
    <<S_account_id, S_thread_id, S_from_address, S_to_address, S_subject, S_start_date,
      S_end_date>>

\* C14 as claimed: the query search_emails builds is SELECT EMAILS WITH
\* followed by the comparisons of the filters, joined by AND, in the order
\* the filters were inserted.
C14_ClauseInsertionOrder ==
    (filters # <<>> /\ \A i \in 1..Len(filters) : filters[i].key \in EmailFilterKeys)
    => qtext.emails = S_SELECT_EMAILS \o S_WITH
                      \o JoinStr([i \in 1..Len(filters) |-> EmailClause(filters[i])], S_AND)

\* the filters of d in the order of EmailKeyOrder
InKeyOrder(d) ==
    LET RECURSIVE F(_)
        F(i) == IF i > Len(EmailKeyOrder) THEN <<>>
                ELSE SelectSeq(d, LAMBDA e : e.key = EmailKeyOrder[i]) \o F(i + 1)
    IN F(1)

\* C14 as amended: the comparisons follow the fixed order account_id,
\* thread_id, from_address, to_address, subject, start_date, end_date,
\* whatever the insertion order; with no filter the query is SELECT EMAILS.
C14_ClauseFixedOrder ==
    qtext.emails =
        IF filters = <<>> THEN (IF qtext = NoQueries THEN <<>> ELSE S_SELECT_EMAILS)
        ELSE S_SELECT_EMAILS \o S_WITH
             \o JoinStr([i \in 1..Len(InKeyOrder(filters)) |->
                             EmailClause(InKeyOrder(filters)[i])], S_AND)

\* subject was inserted before account_id, and account_id comes first
C14_Witness ==
    /\ Len(filters) = 2
    /\ filters[1].key = S_subject /\ filters[2].key = S_account_id
    /\ filters[1].val = PStr(S_a) /\ filters[2].val.k = "list"
    /\ qtext.emails = S_SELECT_EMAILS \o S_WITH \o InClause(S_ACCOUNT_ID, filters[2].val)
                      \o S_AND \o LikeClause(S_SUBJECT, filters[1].val)

\* the column a filter is compared with, per search method
EmailColumn(key) ==
    CASE key = S_account_id -> S_ACCOUNT_ID
      [] key = S_thread_id -> S_THREAD_ID
      [] key = S_from_address -> S_FROM_ADDRESS
      [] key = S_to_address -> S_TO_ADDRESSES
      [] OTHER -> S_SUBJECT

\* C15: every filter among account_id, thread_id, from_address,
\* to_address and subject that holds a sequence appears in the query as
\* <COLUMN> IN ('..','..'), in search_emails and (subject) in search_threads.
C15_SequenceFilters ==
    \A i \in 1..Len(filters) :
        (filters[i].val.k = "list"
         /\ filters[i].key \in EmailFilterKeys \ {S_start_date, S_end_date})
        => /\ IsSubstring(InClause(EmailColumn(filters[i].key), filters[i].val),
                          qtext.emails)
           /\ filters[i].key = S_subject =>
                  IsSubstring(InClause(S_SUBJECT, filters[i].val), qtext.threads)

\* C16: a select the server answers with no identifiers returns the empty
\* sequence on the socket and on the web service alike.
C16_SelectNoMatch ==
    (/\ sel.op \in {"select", "websvc_select"}
     /\ sel.ids = <<>>
     /\ sel.fault = "ok"
     /\ (sel.op = "select" => sel.was))
    => sel.val = PList(<<>>)

ConnectOps == {"connect", "qmclient_connect"}

InOrder(first, second) ==
    add_email(WebMgr, add_email(WebMgr, cbase, first, <<>>, OkEnv).st, second, <<>>,
              OkEnv).st

\* C18: once two concurrent add_email calls on the web service have both
\* returned, the store is what one of the two sequential orders of the
\* calls gives from the same start, and when the thread they refer to
\* existed both email identifiers are stored in its record.
C18_ConcurrentCalls ==
    (\A p \in Procs : procs[p].pc = "done")
    => /\ store \in {InOrder(procs[1].data, procs[2].data),
                     InOrder(procs[2].data, procs[1].data)}
       /\ ServerHas(cbase, "THREADS", S_t1)
          => \A p \in Procs :
                Occurrences(Get(procs[p].data, S_id, PNone).s,
                            store["THREADS"][S_t1].data) >= 1

\* the fields of a wire string that are the empty string
EmptyFields(w) == { i \in 1..Len(Split(w, FIELD_MARK)) : Split(w, FIELD_MARK)[i] = <<>> }

\* C20: the empty wire string decodes to a record without fields, and an
\* empty field of a non-empty wire string decodes to the empty scalar, with
\* parse_record and with _parse_record.
C20_DecodeEdgeCases ==
    wire.k = "str"
    => /\ wire.s = <<>> =>
              parse_record(wire) = EmptyDict /\ _parse_record(wire) = EmptyDict
       /\ wire.s # <<>> =>
              \A i \in EmptyFields(wire.s) :
                  /\ parse_record(wire)[i].val = PStr(<<>>)
                  /\ _parse_record(wire)[i].val = PStr(<<>>)

DecodeOps == {"parse_record", "_parse_record"}

\* C21: whatever value a decoder is handed, a str or not, it returns a
\* record and raises nothing; handed anything but a str it returns the
\* empty record.
C21_DecodeNeverRaises ==
    last.op \in DecodeOps
    => /\ ~last.exc
       /\ last.val.k = "dict"
       /\ wire.k # "str" => last.val = PDict(EmptyDict)

\* parse_record was handed bytes and returned {}
C21_Witness ==
    /\ last.op = "parse_record" /\ wire.k = "bytes"
    /\ last.val = PDict(EmptyDict) /\ ~last.exc

\* C22: a read that returned on an open connection gave the complete
\* answer to its own command, and left no byte of any answer behind for a
\* later call.
C22_ResponseAttribution ==
    (rx.pc = "idle" /\ rx.calls > 0 /\ ~rx.closed)
    => rx.val = PStr(rx.own) /\ rx.pending = <<>>

FullChunk(c) == Len(c) = RecvSize /\ c[Len(c)] # 0

C24_ReadThenWriteNeutral ==
    (last.op = "rewrite" /\ last.val = PTrue)
    => StripTrailingFields(store["USERS"][S_u1].data) = StripTrailingFields(last.arg)

\* a record whose third field holds values and sub-values was rewritten
C24_Witness ==
    /\ last.op = "rewrite" /\ last.val = PTrue
    /\ NumFields(last.arg) = 3
    /\ Contains(Split(last.arg, FIELD_MARK)[3], VALUE_MARK)
    /\ Contains(Split(last.arg, FIELD_MARK)[3], SUBVALUE_MARK)
    /\ store["USERS"][S_u1].data = last.arg

\* the attachment identifiers email e1 was added with: the values of the
\* third field of its record (id, type, attachment_ids)
AttachedIds == Split(Split(store["EMAILS"][S_e1].data, FIELD_MARK)[3], VALUE_MARK)

\* the records of the attachments among ids that exist, in order
ExistingAttachments(ids) ==
    LET there == SelectSeq(ids, LAMBDA a : ServerHas(store, "ATTACHMENTS", a))
    IN [i \in 1..Len(there) |->
            PDict(_parse_record(PStr(store["ATTACHMENTS"][there[i]].data)))]

\* C25: get_email_attachments of an email added with the attachment
\* identifiers a1..an returns, in that order, the record of each ai stored
\* in ATTACHMENTS.
C25_AttachmentResolution ==
    (/\ last.op = "get_email_attachments"
     /\ ~last.cf_fault /\ last.fault_at = 0
     /\ ServerHas(store, "EMAILS", S_e1)
     /\ NumFields(store["EMAILS"][S_e1].data) = 3)
    => last.val = PList(ExistingAttachments(AttachedIds))

\* the thread records stored under the identifiers printed in output
MatchedThreads(output) ==
    { PDict(_parse_record(PStr(store["THREADS"][t].data))) :
          t \in { u \in SearchIds : ServerHas(store, "THREADS", u)
                                    /\ IsSubstring(u \o <<NEWLINE>>, output) } }

\* C26: every record search_threads returns is the THREADS record of an
\* identifier the thread query matched.
C26_ThreadSearchResolvesThreads ==
    (last.op = "search_threads" /\ last.val.k = "list")
    => \A i \in 1..Len(last.val.l) : last.val.l[i] \in MatchedThreads(last.arg)

\* C27: a get of an identifier whose add returned it (the record is
\* stored; these runs have no failure) returns a record whose id field is
\* that identifier, over either transport.
C27_AddThenGet ==
    (/\ last.op \in {GetOp(kind) : kind \in AddGetKinds}
     /\ ServerHas(store, FileOf(KindOf(last.op)), last.arg))
    => /\ last.val.k = "dict"
       /\ Get(last.val.l, S_id, PNone) = PStr(last.arg)

\* the identifiers of the records of the entity runs that _format_record
\* cannot encode
UnencodableIds ==
    { Get(data, S_id, PStr(S_u1)).s : data \in { d \in EntityEmailDatas : FormatRaises(d) } }

\* C28: an add of a record that cannot be encoded leaves the server's
\* files as they were, and its write_record returns False.
C28_NoWriteOnEncodeFailure ==
    [][ (last'.op \in AddOps /\ last'.arg \in UnencodableIds)
        => (store' = store /\ ~Truthy(last'.steps[1])) ]_vars

\* the threads whose stored record differs between two contents of the server
ChangedThreads(st, st2) == { t \in DOMAIN st["THREADS"] : st2["THREADS"][t] # st["THREADS"][t] }

\* C29: an add_email makes a third command, the THREADS write, only after
\* a primary write and a thread read that both returned something truthy;
\* it creates or changes a thread record only through that write, and only
\* the thread the stored email names; after a primary write that returned
\* False it returns ''.
C29_AddEmailThreadFrame ==
    [][ last'.op = "add_email" =>
          /\ Len(last'.steps) = 3 => (Truthy(last'.steps[1]) /\ Truthy(last'.steps[2]))
          /\ \A t \in ChangedThreads(store, store') :
                /\ Len(last'.steps) = 3
                /\ ServerHas(store', "EMAILS", last'.arg)
                /\ \E i \in 3..NumFields(store'["EMAILS"][last'.arg].data) :
                      Split(store'["EMAILS"][last'.arg].data, FIELD_MARK)[i] = t
          /\ ~Truthy(last'.steps[1]) => (last'.val = PStr(<<>>) /\ Len(last'.steps) = 1)
      ]_vars

\* an add_email that wrote an existing thread back
C29_Witness ==
    /\ last.op = "add_email"
    /\ Len(last.steps) = 3 /\ Truthy(last.steps[3])
    /\ \E t \in ThreadIds : ServerHas(store, "THREADS", t)

\* C30: after disconnect the manager has no connection handle and no
\* connected transport, whether or not the transport's own disconnect
\* failed; the operation a socket manager runs next makes one connect
\* attempt, and sends no command when that attempt is refused.
C30_DisconnectThenReuse ==
    [][ /\ last'.op = "disconnect" => (~mgr'.connection /\ ~mgr'.connected)
        /\ (last.op = "disconnect" /\ last'.op # "disconnect" /\ ~mgr.use_websvc)
           => /\ last'.att = 1
              /\ last'.cf_fault => (last'.trips = 0 /\ ~Truthy(last'.val))
              /\ ~last'.cf_fault => (last'.trips = 1 /\ mgr'.connection /\ mgr'.connected)
      ]_vars

\* a socket manager read back a record over a connection the get itself
\* made: the record was added over an earlier connection, which only a
\* disconnect can have ended
C30_Witness ==
    /\ ~mgr.use_websvc
    /\ last.op \in {GetOp(kind) : kind \in AddGetKinds}
    /\ last.att = 1 /\ Truthy(last.val)

====
